---- MODULE Spec2Model ----
(***************************************************************************)
(* StackFlow-API (version 3.0.3): an express service that keeps one        *)
(* Portainer JWT in a module-level cache, proxies stack creation and       *)
(* listing to Portainer, and writes DNS records and tunnel ingress rules   *)
(* at Cloudflare.  The model follows the event loop of node: every action  *)
(* is the code that runs between two awaits of one handler, so the only    *)
(* interleaving points are the network calls and the timers.               *)
(***************************************************************************)
EXTENDS Integers, Sequences, FiniteSets, TLC

(***************************************************************************)
(* Bounds of the model.                                                    *)
(***************************************************************************)
MaxReqs == 2        \* inbound requests (one slot each)
MaxLogins == 3      \* login calls issued to Portainer (startup included)
MaxTicks == 2       \* clock advances, requests one after the other
MaxConcTicks == 2   \* clock advances, requests in flight at once
MaxRules == 3       \* ingress rules the tunnel holds at the start

(***************************************************************************)
(* Program constants.                                                      *)
(***************************************************************************)
NULL == 0                               \* null token / null expiresAt
JWT_TTL == 8 * 60 * 60 * 1000           \* cache lifetime of a token, ms
STACK_TIMEOUT == 30000                  \* waitWithTimeout of one n8n stack
DEFAULT_PORT == 6379
MIN_PORT == 1024
MAX_PORT == 65535

UNDEF == <<"undefined">>                \* a header / env value that is not set
AuthFailMsg == "Falha na autenticacao do Portainer"
EmptyCache == [token |-> NULL, expiresAt |-> NULL]

ReqIds == 1..MaxReqs
Tokens == 1..MaxLogins

(***************************************************************************)
(* Outcomes of one call to Portainer, as axios reports them: a 2xx         *)
(* response, an error with a response (status 401 or another status), or   *)
(* an error without a response (network error).                            *)
(***************************************************************************)
Outcomes == {"ok", "e401", "e500", "enet"}

\* error.response?.status of the axios error of an outcome (NULL: no response)
ErrStatus(o) == CASE o = "e401" -> 401 [] o = "e500" -> 500 [] OTHER -> NULL

\* error.response?.data || error.message of the axios error of an outcome
ErrDetail(o) ==
  CASE o = "e401" -> "portainer: unauthorized"
    [] o = "e500" -> "portainer: server error"
    [] OTHER -> "connect ECONNREFUSED"

\* error.message of the axios error of an outcome
ErrMessage(o) ==
  CASE o = "e401" -> "Request failed with status code 401"
    [] o = "e500" -> "Request failed with status code 500"
    [] OTHER -> "connect ECONNREFUSED"

(***************************************************************************)
(* String.prototype.split(' ') on a sequence of characters.                *)
(***************************************************************************)
RECURSIVE split(_)
split(s) ==
  IF \A i \in 1..Len(s) : s[i] # " "
    THEN <<s>>
    ELSE LET i == CHOOSE k \in 1..Len(s) :
                     s[k] = " " /\ \A j \in 1..(k-1) : s[j] # " "
         IN <<SubSeq(s, 1, i-1)>> \o split(SubSeq(s, i+1, Len(s)))

\* truthiness of a string-or-undefined value
Truthy(x) == x # UNDEF /\ x # <<>>

\* const token = authHeader && authHeader.split(' ')[1]
headerToken(authHeader) ==
  IF ~Truthy(authHeader) THEN authHeader
  ELSE LET parts == split(authHeader)
       IN IF Len(parts) >= 2 THEN parts[2] ELSE UNDEF

\* The bearer gate: "next", or the status of the rejection.
authenticateToken_NoMissingCheck(authHeader, AUTH_TOKEN) ==
  LET token == headerToken(authHeader)
  IN IF ~Truthy(AUTH_TOKEN) THEN "next"
     ELSE IF token # AUTH_TOKEN THEN "403"
     ELSE "next"

authenticateToken(authHeader, AUTH_TOKEN) ==
  LET token == headerToken(authHeader)
  IN IF ~Truthy(AUTH_TOKEN) THEN "next"
     ELSE IF ~Truthy(token) THEN "401"
     ELSE IF token # AUTH_TOKEN THEN "403"
     ELSE "next"

(***************************************************************************)
(* The cache test of getValidJWT.                                          *)
(***************************************************************************)
CacheValid_Inverted(cache, t) == cache.token # NULL /\ cache.expiresAt < t

CacheValid_Inclusive(cache, t) == cache.token # NULL /\ cache.expiresAt >= t

CacheValid_NoExpiry(cache, t) == cache.token # NULL

CacheValid(cache, t) == cache.token # NULL /\ cache.expiresAt > t


(***************************************************************************)
(* Inputs.  A request body of POST /api/stack: nome, tipo and rede are     *)
(* strings or undefined, porta is a number or undefined, config is the set *)
(* of its fields that hold a non-empty value.                              *)
(***************************************************************************)
ConfigFields == {"postgresHost", "postgresDb", "postgresPassword",
                 "redisHost", "redisPort", "redisPassword"}

Body(nome, tipo, rede, hasPorta, porta, config) ==
  [nome |-> nome, tipo |-> tipo, rede |-> rede,
   hasPorta |-> hasPorta, porta |-> porta, config |-> config]

NoBody == Body("", "", "", FALSE, 0, {})

\* The bodies the concurrent specification draws from.
Bodies ==
  { Body("", "redis", "net", FALSE, 0, {}),             \* nome missing
    Body("app", "redis", "net", FALSE, 0, {}),          \* redis, default port
    Body("app", "Redis", "net", TRUE, 1023, {}),        \* redis, port too low
    Body("app", "n8n", "net", FALSE, 0, ConfigFields),  \* n8n, complete
    Body("app", "n8n", "net", FALSE, 0, {}),            \* n8n, no config
    Body("app", "mysql", "net", FALSE, 0, {}) }         \* unsupported tipo

\* The Authorization headers the concurrent specification draws from.
Headers ==
  { UNDEF,                  \* no Authorization header
    <<"B">>,                \* a scheme and no token
    <<"s">>,                \* the secret without a scheme
    <<"B", " ", "s">>,      \* the secret
    <<"B", " ", "x">> }     \* another token

Secret == <<"s">>

Routes == {"stack", "stacks", "refresh", "status", "health", "tipos"}
GatedRoutes == {"stack", "stacks", "refresh", "status", "cloudflare", "tunnel"}

\* tipo.toLowerCase() on the tipo values of the model
toLowerCase(t) ==
  CASE t = "Redis" -> "redis" [] t = "N8N" -> "n8n" [] OTHER -> t

(***************************************************************************)
(* A request body of POST /api/cloudflare: nome and tipo are strings ("" : *)
(* not given), ipServidor and content are texts cut into a scheme and the  *)
(* rest (<<>> : not given), proxied is a JSON value or undefined.           *)
(***************************************************************************)
DnsBody(nome, tipo, ipServidor, content, proxied) ==
  [nome |-> nome, tipo |-> tipo, ipServidor |-> ipServidor,
   content |-> content, proxied |-> proxied]

\* the values of proxied in a JSON body, written as in JavaScript
ProxiedValues == {"undefined", "true", "false", "null", "'false'", "0", "1"}

\* Boolean(v) on these values
Boolean(v) == v \notin {"undefined", "false", "null", "0"}

CLOUDFLARE_DOMAIN == "example.com"

\* `${nome}.${CLOUDFLARE_DOMAIN}`
subdomain(nome) == <<nome, CLOUDFLARE_DOMAIN>>

\* tipo.toUpperCase() on the tipo values of the model
toUpperCase(t) ==
  CASE t = "a" -> "A" [] t = "cname" -> "CNAME" [] t = "txt" -> "TXT"
    [] OTHER -> t

tiposPermitidos == {"A", "AAAA", "CNAME"}

\* const targetValue = ipServidor || content
targetValue(body) ==
  IF Truthy(body.ipServidor) THEN body.ipServidor ELSE body.content

\* targetValue.replace(/^https?:\/\//, '')
cleanTarget(t) ==
  IF Len(t) > 0 /\ t[1] \in {"http://", "https://"} THEN Tail(t) ELSE t

\* proxied given: Boolean(proxied); otherwise tipoUpper !== 'CNAME'
proxiedValue_TypeDefault(body) == toUpperCase(body.tipo) # "CNAME"

proxiedValue(body) ==
  IF body.proxied # "undefined"
    THEN Boolean(body.proxied)
    ELSE toUpperCase(body.tipo) # "CNAME"

\* the recordData createCloudflareRecord sends for a request body
RecordDataOf(body) ==
  LET tipoUpper == toUpperCase(body.tipo)
  IN [type |-> tipoUpper,
      name |-> subdomain(body.nome),
      content |-> IF tipoUpper = "CNAME"
                    THEN cleanTarget(targetValue(body))
                    ELSE targetValue(body),
      proxied |-> proxiedValue(body)]

(***************************************************************************)
(* A request body of POST /api/cloudflare/tunnel: hostname is a text cut   *)
(* at its dots, service a text cut into a scheme and the rest (<<>> : not  *)
(* given), port and protocol are the texts that are interpolated.          *)
(***************************************************************************)
TunnelBody(hostname, service, port, protocol) ==
  [hostname |-> hostname, service |-> service,
   port |-> port, protocol |-> protocol]

\* process.env.DOMAIN, cut at its dots
Domain == <<"dom", "com">>

\* hostname.includes('.') && hostname.split('.').length > 2
\*   ? hostname : `${hostname}.${DOMAIN}`
fullHostname(hostname) ==
  IF Len(hostname) > 1 /\ Len(hostname) > 2 THEN hostname
  ELSE hostname \o Domain

\* the pieces of the texts of the model that hold '://'
Schemes == {"http://", "https://", "tcp://", "ssh://", "://"}

\* service, or `${protocol}://${service}:${port}` without a '://' in it
serviceUrl(body) ==
  IF \E i \in 1..Len(body.service) : body.service[i] \in Schemes
    THEN body.service
    ELSE <<body.protocol, "://">> \o body.service \o <<":", body.port>>

(***************************************************************************)
(* addHostnameToTunnel, the rewrite of the rule list.  A rule is           *)
(* [hostname, service, originRequest]; a rule without a hostname has       *)
(* hostname UNDEF.                                                         *)
(***************************************************************************)
Rule(hostname, service, originRequest) ==
  [hostname |-> hostname, service |-> service,
   originRequest |-> originRequest]

\* existingIngress.find(rule => !rule.hostname), as a list of 0 or 1 rule
find(rules) ==
  LET NoHostname(rule) == ~Truthy(rule.hostname)
      hits == SelectSeq(rules, NoHostname)
  IN IF hits = <<>> THEN <<>> ELSE <<hits[1]>>

NewIngress_NoFilter(existingIngress, hostname, service) ==
  LET HasHostname(rule) == Truthy(rule.hostname)
  IN SelectSeq(existingIngress, HasHostname)
       \o <<Rule(hostname, service, "noTLSVerify")>>
       \o find(existingIngress)

NewIngress_DropsOthers(existingIngress, hostname, service) ==
  <<Rule(hostname, service, "noTLSVerify")>> \o find(existingIngress)

NewIngress(existingIngress, hostname, service) ==
  LET Other(rule) == rule.hostname # hostname
      HasHostname(rule) == Truthy(rule.hostname)
      filteredIngress == SelectSeq(existingIngress, Other)
      catchAllRule == find(filteredIngress)
      otherRules == SelectSeq(filteredIngress, HasHostname)
  IN otherRules \o <<Rule(hostname, service, "noTLSVerify")>> \o catchAllRule

(***************************************************************************)
(* State.                                                                  *)
(***************************************************************************)
VARIABLES
  env,         \* process.env: AUTH_TOKEN, PORTAINER_USERNAME,
               \*   PORTAINER_PASSWORD, CLOUDFLARE_API_TOKEN
  phase,       \* "starting" | "listening" | "exited"
  now,         \* Date.now()
  jwtCache,    \* the module-level cache {token, expiresAt}
  issued,      \* tokens Portainer has issued so far (token k is the k-th)
  loginCalls,  \* POST /api/auth calls issued so far
  req,         \* the inbound requests, one record per request slot
  lastLogin,   \* history: token and expiry written by the latest login
  invalidated, \* history: the cache was cleared since the latest login
  denied,      \* history: a Portainer call was answered 401 and since
               \*          then no getValidJWT call and no login happened
  zone,        \* the DNS records the provider holds for the zone
  ingress      \* the ingress rule list the provider holds for the tunnel

vars == <<env, phase, now, jwtCache, issued, loginCalls, req,
          lastLogin, invalidated, denied, zone, ingress>>

\* the state of the DNS provider
cfVars == <<zone, ingress>>

IdleReq ==
  [pc |-> "idle", route |-> "none", hdr |-> UNDEF, body |-> NoBody,
   seen |-> NULL, tok |-> NULL, calls |-> <<>>, created |-> <<>>, errors |-> <<>>,
   deadline |-> 0, status |-> 0, details |-> "", success |-> "none",
   authenticated |-> FALSE, timeRemaining |-> 0,
   porta |-> 0, stacksCriadas |-> -1,
   recordData |-> <<>>, existing |-> <<>>, recordId |-> NULL, raced |-> FALSE,
   existingIngress |-> <<>>, newIngress |-> <<>>, answer |-> <<>>,
   responses |-> 0]

\* res.status(s).json({... details: d}); responses counts the responses sent
Respond(rq, s, d) ==
  [rq EXCEPT !.pc = "done", !.status = s, !.details = d,
             !.responses = @ + 1]

\* the request record after it has issued a call carrying token t
Issue(rq, pc, call, t) ==
  [rq EXCEPT !.pc = pc,
             !.calls = Append(@, [call |-> call, tok |-> t, out |-> "pending"])]

\* the request record after its latest call has ended with outcome o
Settle(rq, o) == [rq EXCEPT !.calls[Len(rq.calls)].out = o]

\* number of clock advances that lead to a clock value
TicksOf(t) ==
  (t \div JWT_TTL) + ((t % JWT_TTL) \div STACK_TIMEOUT)
    + ((t % JWT_TTL) % STACK_TIMEOUT)

(***************************************************************************)
(* Init: the module has been loaded and startServer() has run up to its    *)
(* first await: the process has exited if the Portainer credentials are    *)
(* missing, otherwise the startup login is in flight.                      *)
(***************************************************************************)
InitServer(authTokens, cloudflareTokens) ==
  /\ env \in [AUTH_TOKEN : authTokens,
              PORTAINER_USERNAME : {<<"a">>},
              PORTAINER_PASSWORD : {<<>>, <<"p">>},
              CLOUDFLARE_API_TOKEN : cloudflareTokens]
  /\ now = 0
  /\ jwtCache = EmptyCache
  /\ issued = 0
  /\ req = [r \in ReqIds |-> IdleReq]
  /\ lastLogin = EmptyCache
  /\ invalidated = FALSE
  /\ denied = FALSE
  /\ IF ~Truthy(env.PORTAINER_USERNAME) \/ ~Truthy(env.PORTAINER_PASSWORD)
       THEN phase = "exited" /\ loginCalls = 0
       ELSE phase = "starting" /\ loginCalls = 1

\* the server of the specification Spec: the DNS provider holds nothing
Init ==
  /\ InitServer({UNDEF, Secret}, {<<"c">>})
  /\ zone = {}
  /\ ingress = <<>>

(***************************************************************************)
(* authenticatePortainer(), the part after the await: on success the cache *)
(* is replaced by the new token and Date.now() + 8h.                       *)
(***************************************************************************)
\* jwtCache = { token: jwt, expiresAt: Date.now() + (8 * 60 * 60 * 1000) }
NewCache_Minutes(jwt, t) == [token |-> jwt, expiresAt |-> t + 8 * 60 * 1000]

NewCache(jwt, t) == [token |-> jwt, expiresAt |-> t + JWT_TTL]

LoginSuccess ==
  /\ issued' = issued + 1
  /\ jwtCache' = NewCache(issued + 1, now)
  /\ lastLogin' = [token |-> issued + 1, expiresAt |-> now + JWT_TTL]
  /\ invalidated' = FALSE
  /\ denied' = FALSE

LoginFailure_Clears ==
  /\ jwtCache' = EmptyCache
  /\ UNCHANGED <<issued, lastLogin, invalidated, denied>>

LoginFailure == UNCHANGED <<jwtCache, issued, lastLogin, invalidated, denied>>

\* startServer() after the startup login: listen, or exit(1)
StartupLogin_ListensAnyway(o) ==
  /\ phase = "starting"
  /\ IF o = "ok" THEN LoginSuccess ELSE LoginFailure
  /\ phase' = "listening"
  /\ UNCHANGED <<env, now, loginCalls, req>>
  /\ UNCHANGED cfVars

StartupLogin(o) ==
  /\ phase = "starting"
  /\ IF o = "ok"
       THEN LoginSuccess /\ phase' = "listening"
       ELSE LoginFailure /\ phase' = "exited"
  /\ UNCHANGED <<env, now, loginCalls, req>>
  /\ UNCHANGED cfVars

\* the clock advances
Tick(d) ==
  /\ phase # "exited"
  /\ now' = now + d
  /\ UNCHANGED <<env, phase, jwtCache, issued, loginCalls, req,
                 lastLogin, invalidated, denied>>
  /\ UNCHANGED cfVars


(***************************************************************************)
(* getPortainerHeaders() / getValidJWT() as called by a handler that then  *)
(* issues the call `call`: with a valid cache the token is taken from the  *)
(* cache and the call is issued at once; otherwise a login call is issued  *)
(* and the handler waits for it.                                           *)
(***************************************************************************)
getValidJWT_Coalesced(r, rq, pc, call) ==
  IF CacheValid(jwtCache, now)
    THEN /\ req' = [req EXCEPT ![r] =
                      Issue([rq EXCEPT !.seen = jwtCache.token,
                                       !.tok = jwtCache.token],
                            pc, call, jwtCache.token)]
         /\ UNCHANGED loginCalls
    ELSE /\ loginCalls' =
              IF \E q \in ReqIds : req[q].pc = "login"
                THEN loginCalls ELSE loginCalls + 1
         /\ loginCalls' <= MaxLogins
         /\ req' = [req EXCEPT ![r] =
                      Issue([rq EXCEPT !.seen = jwtCache.token],
                            "login", "login", NULL)]

getValidJWT(r, rq, pc, call) ==
  IF CacheValid(jwtCache, now)
    THEN /\ req' = [req EXCEPT ![r] =
                      Issue([rq EXCEPT !.seen = jwtCache.token,
                                       !.tok = jwtCache.token],
                            pc, call, jwtCache.token)]
         /\ UNCHANGED loginCalls
    ELSE /\ loginCalls < MaxLogins
         /\ loginCalls' = loginCalls + 1
         /\ req' = [req EXCEPT ![r] =
                      Issue([rq EXCEPT !.seen = jwtCache.token],
                            "login", "login", NULL)]

\* the call a route issues once it holds a token
FirstCall(route) == IF route = "stack" THEN "swarm" ELSE "list"

(***************************************************************************)
(* POST /api/cloudflare up to its first await: the checks of the body,     *)
(* then createCloudflareRecord up to the lookup call.  One variable of the *)
(* environment stands for CLOUDFLARE_API_TOKEN, _ZONE_ID and _DOMAIN.      *)
(***************************************************************************)
CloudflareHead(rq) ==
  LET body == rq.body
  IN IF body.nome = "" \/ body.tipo = ""
       THEN Respond(rq, 400, "Campos obrigatorios: nome, tipo")
     ELSE IF ~Truthy(targetValue(body))
       THEN Respond(rq, 400, "Campo obrigatorio: ipServidor ou content")
     ELSE IF toUpperCase(body.tipo) \notin tiposPermitidos
       THEN Respond(rq, 400, "Tipo de registro invalido")
     ELSE IF ~Truthy(env.CLOUDFLARE_API_TOKEN)
       THEN Respond(rq, 500, "Configuracoes da Cloudflare nao definidas")
     ELSE [Issue(rq, "lookup", "lookup", NULL)
             EXCEPT !.recordData = <<RecordDataOf(body)>>]

(***************************************************************************)
(* POST /api/cloudflare/tunnel up to its first await: the check of the     *)
(* body, then addHostnameToTunnel up to the fetch of the configuration.    *)
(* One variable of the environment stands for CLOUDFLARE_API_TOKEN,        *)
(* _ACCOUNT_ID and _TUNNEL_ID.                                             *)
(***************************************************************************)
TunnelHead(rq) ==
  IF ~Truthy(rq.body.hostname) \/ ~Truthy(rq.body.service)
    THEN Respond(rq, 400, "Campos obrigatorios: hostname, service")
  ELSE IF ~Truthy(env.CLOUDFLARE_API_TOKEN)
    THEN Respond(rq, 500, "Configuracoes do tunel Cloudflare nao definidas")
  ELSE Issue(rq, "fetch", "fetch", NULL)

(***************************************************************************)
(* History of the requests to the DNS provider.  The handlers take no lock *)
(* and send no version with a write: a request overlaps another when it    *)
(* issues its first call to the provider while the other is between its    *)
(* first call and the response to its write.                               *)
(***************************************************************************)
\* another request for the name is between its lookup call and the response
\* to its update or create call
DnsInFlight(r, name) ==
  \E q \in ReqIds \ {r} :
    /\ req[q].pc \in {"lookup", "put", "post"}
    /\ req[q].recordData[1].name = name

\* another registration is between its fetch and the response to its push
TunnelInFlight(r) == \E q \in ReqIds \ {r} : req[q].pc \in {"fetch", "push"}

\* request r, now in the state rq, has issued its first call to the provider
\* while another request was in flight
Overlapped(r, rq) ==
  \/ rq.pc = "lookup" /\ DnsInFlight(r, rq.recordData[1].name)
  \/ rq.pc = "fetch" /\ TunnelInFlight(r)

\* POST /api/auth/refresh: jwtCache = { token: null, expiresAt: null }
ForcedReset_Keeps(cache) == cache

ForcedReset(cache) == EmptyCache

(***************************************************************************)
(* A request arrives: the gate and the synchronous head of the handler.    *)
(***************************************************************************)
Arrive(r, route, hdr, body) ==
  /\ phase = "listening"
  /\ req[r].pc = "idle"
  /\ LET rq == [IdleReq EXCEPT !.route = route, !.hdr = hdr, !.body = body]
         gate == IF route \in GatedRoutes
                   THEN authenticateToken(hdr, env.AUTH_TOKEN) ELSE "next"
     IN CASE gate = "401" ->
               /\ req' = [req EXCEPT ![r] =
                     Respond(rq, 401, "Token de autenticacao nao fornecido")]
               /\ UNCHANGED <<jwtCache, loginCalls, invalidated, denied>>
          [] gate = "403" ->
               /\ req' = [req EXCEPT ![r] = Respond(rq, 403, "Token invalido")]
               /\ UNCHANGED <<jwtCache, loginCalls, invalidated, denied>>
          [] gate = "next" /\ route = "health" ->
               /\ req' = [req EXCEPT ![r] =
                     [Respond(rq, 200, "") EXCEPT
                        !.authenticated = (jwtCache.token # NULL)]]
               /\ UNCHANGED <<jwtCache, loginCalls, invalidated, denied>>
          [] gate = "next" /\ route = "tipos" ->
               /\ req' = [req EXCEPT ![r] = Respond(rq, 200, "")]
               /\ UNCHANGED <<jwtCache, loginCalls, invalidated, denied>>
          [] gate = "next" /\ route = "status" ->
               /\ req' = [req EXCEPT ![r] =
                     [Respond(rq, 200, "") EXCEPT
                        !.authenticated = (jwtCache.token # NULL),
                        !.timeRemaining =
                           IF jwtCache.expiresAt # NULL
                             THEN (IF jwtCache.expiresAt - now > 0
                                     THEN jwtCache.expiresAt - now ELSE 0)
                             ELSE 0]]
               /\ UNCHANGED <<jwtCache, loginCalls, invalidated, denied>>
          [] gate = "next" /\ route = "cloudflare" ->
               /\ req' = [req EXCEPT ![r] =
                     LET rq1 == CloudflareHead(rq)
                     IN [rq1 EXCEPT !.raced = Overlapped(r, rq1)]]
               /\ UNCHANGED <<jwtCache, loginCalls, invalidated, denied>>
          [] gate = "next" /\ route = "tunnel" ->
               /\ req' = [req EXCEPT ![r] =
                     LET rq1 == TunnelHead(rq)
                     IN [rq1 EXCEPT !.raced = Overlapped(r, rq1)]]
               /\ UNCHANGED <<jwtCache, loginCalls, invalidated, denied>>
          [] gate = "next" /\ route = "refresh" ->
               /\ jwtCache' = ForcedReset(jwtCache)
               /\ invalidated' = TRUE
               /\ UNCHANGED denied
               /\ loginCalls < MaxLogins
               /\ loginCalls' = loginCalls + 1
               /\ req' = [req EXCEPT ![r] = Issue(rq, "login", "login", NULL)]
          [] gate = "next" /\ route = "stacks" ->
               /\ getValidJWT(r, rq, "list", "list")
               /\ denied' = FALSE
               /\ UNCHANGED <<jwtCache, invalidated>>
          [] gate = "next" /\ route = "stack" ->
               IF body.nome = "" \/ body.tipo = "" \/ body.rede = ""
                 THEN /\ req' = [req EXCEPT ![r] =
                           Respond(rq, 400, "Campos obrigatorios: nome, tipo, rede")]
                      /\ UNCHANGED <<jwtCache, loginCalls, invalidated, denied>>
                 ELSE /\ getValidJWT(r, rq, "swarm", "swarm")
                      /\ denied' = FALSE
                      /\ UNCHANGED <<jwtCache, invalidated>>
  /\ UNCHANGED <<env, phase, now, issued, lastLogin>>
  /\ UNCHANGED cfVars

(***************************************************************************)
(* The catch block of POST /api/stack and GET /api/stacks for the axios    *)
(* error of outcome o: a 401 clears the cache; the response carries the    *)
(* status of the error (500 without one).                                  *)
(***************************************************************************)
CatchClears_AnyStatus(o) == ErrStatus(o) # NULL

CatchClears(o) == ErrStatus(o) = 401

Catch_TokenOnly(r, o) ==
  /\ jwtCache' = IF CatchClears(o)
                   THEN [jwtCache EXCEPT !.token = NULL] ELSE jwtCache
  /\ invalidated' = (invalidated \/ CatchClears(o))
  /\ denied' = (denied \/ o = "e401")
  /\ req' = [req EXCEPT ![r] =
        Respond(Settle(@, o),
                IF ErrStatus(o) # NULL THEN ErrStatus(o) ELSE 500,
                ErrDetail(o))]

Catch_IfCurrent(r, o) ==
  LET clears == CatchClears(o) /\ jwtCache.token = req[r].tok
  IN /\ jwtCache' = IF clears THEN EmptyCache ELSE jwtCache
     /\ invalidated' = (invalidated \/ clears)
     /\ denied' = (denied \/ o = "e401")
     /\ req' = [req EXCEPT ![r] =
           Respond(Settle(@, o),
                   IF ErrStatus(o) # NULL THEN ErrStatus(o) ELSE 500,
                   ErrDetail(o))]

Catch(r, o) ==
  /\ jwtCache' = IF CatchClears(o) THEN EmptyCache ELSE jwtCache
  /\ invalidated' = (invalidated \/ CatchClears(o))
  /\ denied' = (denied \/ o = "e401")
  /\ req' = [req EXCEPT ![r] =
        Respond(Settle(@, o),
                IF ErrStatus(o) # NULL THEN ErrStatus(o) ELSE 500,
                ErrDetail(o))]

(***************************************************************************)
(* The login call of a request returns.                                    *)
(***************************************************************************)
LoginResp(r, o) ==
  /\ req[r].pc = "login"
  /\ IF o = "ok"
       THEN /\ LoginSuccess
            /\ req' = [req EXCEPT ![r] =
                 IF @.route = "refresh"
                   THEN [Respond(Settle(@, o), 200,
                                 "Autenticacao renovada com sucesso")
                           EXCEPT !.success = "true"]
                   ELSE Issue([Settle(@, o) EXCEPT !.tok = issued + 1],
                              FirstCall(@.route), FirstCall(@.route),
                              issued + 1)]
       ELSE \* authenticatePortainer throws new Error(AuthFailMsg): the
            \* handler's catch sees an error without a response
            /\ LoginFailure
            /\ req' = [req EXCEPT ![r] = Respond(Settle(@, o), 500, AuthFailMsg)]
  /\ UNCHANGED <<env, phase, now, loginCalls>>
  /\ UNCHANGED cfVars


(***************************************************************************)
(* POST /api/stack after the swarm lookup: the checks on the type, the     *)
(* port and the n8n config, then the first create call.                    *)
(***************************************************************************)
\* const portaFinal = porta || 6379
portaFinal(body) ==
  IF body.hasPorta /\ body.porta # 0 THEN body.porta ELSE DEFAULT_PORT

PortaInvalida(p) == p < MIN_PORT \/ p > MAX_PORT

\* the n8n config check of the handler
ConfigIncompleta(config) ==
  \/ "postgresHost" \notin config
  \/ "postgresDb" \notin config
  \/ "postgresPassword" \notin config

SwarmResp(r, o) ==
  /\ req[r].pc = "swarm"
  /\ IF o # "ok"
       THEN Catch(r, o)
       ELSE /\ UNCHANGED <<jwtCache, invalidated, denied>>
            /\ LET rq == Settle(req[r], o)
                   tipoLower == toLowerCase(rq.body.tipo)
               IN req' = [req EXCEPT ![r] =
                    CASE tipoLower = "redis" ->
                           IF PortaInvalida(portaFinal(rq.body))
                             THEN Respond(rq, 400, "Porta invalida")
                             ELSE [Issue(rq, "create", "create", rq.tok)
                                     EXCEPT !.porta = portaFinal(rq.body)]
                      [] tipoLower = "n8n" ->
                           IF ConfigIncompleta(rq.body.config)
                             THEN Respond(rq, 400,
                                    "Configuracoes obrigatorias para N8N")
                             ELSE [Issue(rq, "editor", "editor", rq.tok)
                                     EXCEPT !.deadline = now + STACK_TIMEOUT]
                      [] OTHER -> Respond(rq, 400, "Tipo nao suportado")]
  /\ UNCHANGED <<env, phase, now, issued, loginCalls, lastLogin>>
  /\ UNCHANGED cfVars

\* the create call of a redis stack returns
CreateResp(r, o) ==
  /\ req[r].pc = "create"
  /\ IF o # "ok"
       THEN Catch(r, o)
       ELSE /\ UNCHANGED <<jwtCache, invalidated, denied>>
            /\ req' = [req EXCEPT ![r] =
                 [Respond(Settle(@, o), 200, "") EXCEPT !.success = "true"]]
  /\ UNCHANGED <<env, phase, now, issued, loginCalls, lastLogin>>
  /\ UNCHANGED cfVars

\* the list call of GET /api/stacks returns
ListResp(r, o) ==
  /\ req[r].pc = "list"
  /\ IF o # "ok"
       THEN Catch(r, o)
       ELSE /\ UNCHANGED <<jwtCache, invalidated, denied>>
            /\ req' = [req EXCEPT ![r] =
                 [Respond(Settle(@, o), 200, "") EXCEPT !.success = "true"]]
  /\ UNCHANGED <<env, phase, now, issued, loginCalls, lastLogin>>
  /\ UNCHANGED cfVars

(***************************************************************************)
(* The n8n fan-out: editor, webhook, worker, one after the other, each     *)
(* awaited through waitWithTimeout(.., 30000) inside its own try/catch.    *)
(***************************************************************************)
N8nStages == {"editor", "webhook", "worker"}

\* the final response of the n8n branch
N8nFinal_AlwaysSuccess(rq) ==
  [Respond(rq, 200, "") EXCEPT !.success = "true",
                               !.stacksCriadas = Len(rq.created)]

N8nFinal_NoReturn(rq) ==
  IF Len(rq.errors) > 0 /\ Len(rq.created) = 0
    THEN [Respond(Respond(rq, 500, "Falha ao criar todas as stacks do N8N"),
                  200, "")
            EXCEPT !.success = "false", !.stacksCriadas = 0]
    ELSE [Respond(rq, 200, "") EXCEPT
            !.success = IF Len(rq.created) > 0 THEN "true" ELSE "false",
            !.stacksCriadas = Len(rq.created)]

N8nFinal(rq) ==
  IF Len(rq.errors) > 0 /\ Len(rq.created) = 0
    THEN [Respond(rq, 500, "Falha ao criar todas as stacks do N8N")
            EXCEPT !.success = "false"]
    ELSE [Respond(rq, 200, "") EXCEPT
            !.success = IF Len(rq.created) > 0 THEN "true" ELSE "false",
            !.stacksCriadas = Len(rq.created)]

\* what follows the try/catch of one stage
N8nAdvance_RereadsCache(rq) ==
  CASE rq.pc = "editor" ->
         [Issue(rq, "webhook", "webhook", jwtCache.token)
            EXCEPT !.deadline = now + STACK_TIMEOUT]
    [] rq.pc = "webhook" ->
         [Issue(rq, "worker", "worker", jwtCache.token)
            EXCEPT !.deadline = now + STACK_TIMEOUT]
    [] OTHER -> N8nFinal(rq)

N8nAdvance(rq) ==
  CASE rq.pc = "editor" ->
         [Issue(rq, "webhook", "webhook", rq.tok)
            EXCEPT !.deadline = now + STACK_TIMEOUT]
    [] rq.pc = "webhook" ->
         [Issue(rq, "worker", "worker", rq.tok)
            EXCEPT !.deadline = now + STACK_TIMEOUT]
    [] OTHER -> N8nFinal(rq)

(***************************************************************************)
(* waitWithTimeout: Promise.race of the create call and a setTimeout.  The *)
(* race is won by the callback node runs first.  The callback of the timer *)
(* can run once the timer is due (node runs it up to one millisecond of    *)
(* Date.now() early); the callback of the response can run at any time     *)
(* before it, also after the 30 seconds have passed.                       *)
(***************************************************************************)
TimerDue(rq) == now >= rq.deadline - 1

\* the callback of the create call of the current stage runs first
N8nResp_Aborts(r, o) ==
  /\ req[r].pc \in N8nStages
  /\ IF o = "ok"
       THEN /\ req' = [req EXCEPT ![r] = N8nAdvance(
                 [Settle(@, o) EXCEPT !.created = Append(@,
                    [tipo |-> req[r].pc, status |-> "confirmado",
                     hasId |-> TRUE])])]
            /\ UNCHANGED <<jwtCache, invalidated, denied>>
       ELSE Catch(r, o)
  /\ UNCHANGED <<env, phase, now, issued, loginCalls, lastLogin>>
  /\ UNCHANGED cfVars

N8nResp(r, o) ==
  /\ req[r].pc \in N8nStages
  /\ LET rq == Settle(req[r], o)
     IN req' = [req EXCEPT ![r] = N8nAdvance(
          IF o = "ok"
            THEN [rq EXCEPT !.created = Append(@,
                    [tipo |-> rq.pc, status |-> "confirmado", hasId |-> TRUE])]
            ELSE [rq EXCEPT !.errors = Append(@,
                    [stack |-> rq.pc, error |-> ErrMessage(o)])])]
  /\ denied' = (denied \/ o = "e401")
  /\ UNCHANGED <<env, phase, now, jwtCache, issued, loginCalls,
                 lastLogin, invalidated>>
  /\ UNCHANGED cfVars

\* the callback of the timer of the current stage runs first
N8nTimeout_Confirmed(r) ==
  /\ req[r].pc \in N8nStages
  /\ TimerDue(req[r])
  /\ LET rq == Settle(req[r], "timeout")
     IN req' = [req EXCEPT ![r] = N8nAdvance(
          [rq EXCEPT !.created = Append(@,
             [tipo |-> rq.pc, status |-> "confirmado", hasId |-> FALSE])])]
  /\ UNCHANGED <<env, phase, now, jwtCache, issued, loginCalls,
                 lastLogin, invalidated, denied>>
  /\ UNCHANGED cfVars

\* the create call is awaited without the race against the timer
N8nTimeout_Ignored(r) ==
  /\ req[r].pc \in N8nStages
  /\ TimerDue(req[r])
  /\ UNCHANGED vars

N8nTimeout(r) ==
  /\ req[r].pc \in N8nStages
  /\ TimerDue(req[r])
  /\ LET rq == Settle(req[r], "timeout")
     IN req' = [req EXCEPT ![r] = N8nAdvance(
          [rq EXCEPT !.created = Append(@,
             [tipo |-> rq.pc, status |-> "criado", hasId |-> FALSE])])]
  /\ UNCHANGED <<env, phase, now, jwtCache, issued, loginCalls,
                 lastLogin, invalidated, denied>>
  /\ UNCHANGED cfVars

\* the response has been sent: the slot is free for the next request
Reset(r) ==
  /\ req[r].pc = "done"
  /\ req' = [req EXCEPT ![r] = IdleReq]
  /\ UNCHANGED <<env, phase, now, jwtCache, issued, loginCalls,
                 lastLogin, invalidated, denied>>
  /\ UNCHANGED cfVars

(***************************************************************************)
(* The DNS provider.  A record is [id, type, name, content, proxied]; ids  *)
(* are given in the order of creation.  The provider refuses to create a   *)
(* record identical to one it holds, and a CNAME next to another record of *)
(* the same name.                                                          *)
(***************************************************************************)
RecordsNamed(name) == {rec \in zone : rec.name = name}

ProviderAccepts(id, data) ==
  \A rec \in RecordsNamed(data.name) :
    rec.id # id =>
      /\ rec.type # "CNAME" /\ data.type # "CNAME"
      /\ ~(rec.type = data.type /\ rec.content = data.content)

ProviderRecord(id, data) ==
  [id |-> id, type |-> data.type, name |-> data.name,
   content |-> data.content, proxied |-> data.proxied]

\* the catch block of POST /api/cloudflare and POST /api/cloudflare/tunnel;
\* an answer of the provider that was in flight is dropped
CloudflareCatch(rq, o) ==
  [Respond(Settle(rq, o),
           IF ErrStatus(o) # NULL THEN ErrStatus(o) ELSE 500, ErrDetail(o))
     EXCEPT !.answer = <<>>]

(***************************************************************************)
(* createCloudflareRecord after the lookup call: listResponse.data.result  *)
(* holds the records of the name, in the order the provider lists them;    *)
(* with a first record the update call is issued for its id, without one   *)
(* the create call.                                                        *)
(***************************************************************************)
\* listResponse.data.result[0]: a record of the name, none if there is none
LookupResults_Empty(name) == {<<>>}

LookupResults(name) ==
  IF RecordsNamed(name) = {} THEN {<<>>}
  ELSE {<<rec>> : rec \in RecordsNamed(name)}

\* the write call createCloudflareRecord issues for an existingRecord
WriteCall_AlwaysCreate(existingRecord) == "post"

WriteCall_AlwaysUpdate(existingRecord) == "put"

WriteCall(existingRecord) == IF existingRecord # <<>> THEN "put" ELSE "post"

(***************************************************************************)
(* The provider answers the lookup call with the records it holds for the  *)
(* name at that moment.  The answer (req[r].answer, a list of one result)  *)
(* is in flight until the handler receives it: what the provider holds may *)
(* have changed by then.                                                   *)
(***************************************************************************)
ProviderLists(r) ==
  /\ req[r].pc = "lookup"
  /\ req[r].answer = <<>>
  /\ \E found \in LookupResults(req[r].recordData[1].name) :
       req' = [req EXCEPT ![r].answer = <<found>>]
  /\ UNCHANGED <<env, phase, now, jwtCache, issued, loginCalls,
                 lastLogin, invalidated, denied>>
  /\ UNCHANGED cfVars

\* the lookup call returns: with the answer of the provider, or with an error
DnsLookupResp(r, o) ==
  /\ req[r].pc = "lookup"
  /\ req[r].route = "cloudflare"
  /\ IF o # "ok"
       THEN req' = [req EXCEPT ![r] = CloudflareCatch(@, o)]
       ELSE /\ req[r].answer # <<>>
            /\ LET found == req[r].answer[1]
               IN req' = [req EXCEPT ![r] =
                    [Issue(Settle(@, o), WriteCall(found), WriteCall(found),
                           NULL)
                       EXCEPT !.existing = found, !.answer = <<>>]]
  /\ UNCHANGED <<env, phase, now, jwtCache, issued, loginCalls,
                 lastLogin, invalidated, denied>>
  /\ UNCHANGED cfVars

(***************************************************************************)
(* The update or create call returns: the provider has replaced the record *)
(* of the id, or added a record with a new id, and the handler answers     *)
(* with the id of the record.                                              *)
(***************************************************************************)
DnsWriteResp(r, o) ==
  /\ req[r].pc \in {"put", "post"}
  /\ LET rq == req[r]
         data == rq.recordData[1]
         id == IF rq.pc = "put" /\ rq.existing # <<>>
                 THEN rq.existing[1].id ELSE Cardinality(zone) + 1
     IN IF o # "ok"
          THEN /\ req' = [req EXCEPT ![r] = CloudflareCatch(@, o)]
               /\ UNCHANGED zone
          ELSE /\ rq.pc = "put" => rq.existing # <<>>
               /\ ProviderAccepts(id, data)
               /\ zone' = {rec \in zone : rec.id # id}
                             \cup {ProviderRecord(id, data)}
               /\ req' = [req EXCEPT ![r] =
                    [Respond(Settle(@, o), 200, "")
                       EXCEPT !.success = "true", !.recordId = id]]
  /\ UNCHANGED <<env, phase, now, jwtCache, issued, loginCalls,
                 lastLogin, invalidated, denied, ingress>>

(***************************************************************************)
(* addHostnameToTunnel after the fetch: the rule list is rewritten and     *)
(* pushed as a whole; after the push the handler answers.                  *)
(***************************************************************************)
\* the provider answers the fetch with the rule list it holds at that
\* moment; the answer is in flight until the handler receives it
ProviderFetches(r) ==
  /\ req[r].pc = "fetch"
  /\ req[r].answer = <<>>
  /\ req' = [req EXCEPT ![r].answer = <<ingress>>]
  /\ UNCHANGED <<env, phase, now, jwtCache, issued, loginCalls,
                 lastLogin, invalidated, denied>>
  /\ UNCHANGED cfVars

\* the fetch returns: with the answer of the provider, or with an error
TunnelFetchResp(r, o) ==
  /\ req[r].pc = "fetch"
  /\ o = "ok" => req[r].answer # <<>>
  /\ LET rq == req[r]
     IN req' = [req EXCEPT ![r] =
          IF o # "ok"
            THEN CloudflareCatch(rq, o)
            ELSE [Issue(Settle(rq, o), "push", "push", NULL)
                    EXCEPT !.existingIngress = rq.answer[1],
                           !.answer = <<>>,
                           !.newIngress =
                              NewIngress(rq.answer[1],
                                         fullHostname(rq.body.hostname),
                                         serviceUrl(rq.body))]]
  /\ UNCHANGED <<env, phase, now, jwtCache, issued, loginCalls,
                 lastLogin, invalidated, denied>>
  /\ UNCHANGED cfVars

TunnelPushResp(r, o) ==
  /\ req[r].pc = "push"
  /\ IF o # "ok"
       THEN /\ req' = [req EXCEPT ![r] = CloudflareCatch(@, o)]
            /\ UNCHANGED ingress
       ELSE /\ ingress' = req[r].newIngress
            /\ req' = [req EXCEPT ![r] =
                 [Respond(Settle(@, o), 200, "") EXCEPT !.success = "true"]]
  /\ UNCHANGED <<env, phase, now, jwtCache, issued, loginCalls,
                 lastLogin, invalidated, denied, zone>>

(***************************************************************************)
(* Spec: requests one after the other (slot 1), every route, every header  *)
(* and every body of the model.                                            *)
(***************************************************************************)
HeadersOf(route) == IF route \in GatedRoutes THEN Headers ELSE {UNDEF}
BodiesOf(route) == IF route = "stack" THEN Bodies ELSE {NoBody}
TickSteps == {1, STACK_TIMEOUT, JWT_TTL}

\* the steps of the requests of a set of slots, other than the arrival
Handlers(slots) ==
  \/ \E r \in slots, o \in Outcomes : LoginResp(r, o)
  \/ \E r \in slots, o \in Outcomes : SwarmResp(r, o)
  \/ \E r \in slots, o \in Outcomes : CreateResp(r, o)
  \/ \E r \in slots, o \in Outcomes : ListResp(r, o)
  \/ \E r \in slots, o \in Outcomes : N8nResp(r, o)
  \/ \E r \in slots : N8nTimeout(r)
  \/ \E r \in slots : Reset(r)

Next ==
  \/ \E o \in Outcomes : StartupLogin(o)
  \/ \E d \in TickSteps : TicksOf(now) < MaxTicks /\ Tick(d)
  \/ \E route \in Routes :
       \E hdr \in HeadersOf(route), body \in BodiesOf(route) :
         Arrive(1, route, hdr, body)
  \/ Handlers({1})

Spec == Init /\ [][Next]_vars

(***************************************************************************)
(* SpecConc: MaxReqs requests in flight at once on the routes that read    *)
(* and write the cache (GET /api/stacks, POST /api/auth/refresh), on a     *)
(* server that was started with its credentials and a secret, each request *)
(* with the accepted header.                                               *)
(***************************************************************************)
ConcRoutes == {"stacks", "refresh"}
ConcHeader == <<"B", " ", "s">>
ConcOutcomes == {"ok", "e401", "enet"}
ConcLoginOutcomes == {"ok", "enet"}
ConcTickStep == JWT_TTL \div 2

InitConc ==
  /\ Init
  /\ env.AUTH_TOKEN = Secret
  /\ phase = "starting"

NextConc ==
  \/ \E o \in ConcLoginOutcomes : StartupLogin(o)
  \/ now < MaxConcTicks * ConcTickStep /\ Tick(ConcTickStep)
  \/ \E r \in ReqIds, route \in ConcRoutes :
       \* a request takes the lowest free slot
       /\ \A q \in 1..(r-1) : req[q].pc # "idle"
       /\ Arrive(r, route, ConcHeader, NoBody)
  \/ \E r \in ReqIds, o \in ConcLoginOutcomes : LoginResp(r, o)
  \/ \E r \in ReqIds, o \in ConcOutcomes : ListResp(r, o)
  \/ \E r \in ReqIds : Reset(r)

SpecConc == InitConc /\ [][NextConc]_vars

(***************************************************************************)
(* SpecStack: one POST /api/stack request on the server of SpecConc, with  *)
(* every port and every config of the model.  The token may have expired   *)
(* before the request arrives; afterwards the clock advances only to the   *)
(* next timer of the n8n fan-out.                                          *)
(***************************************************************************)
Ports == {0, -1, MIN_PORT - 1, MIN_PORT, DEFAULT_PORT, MAX_PORT, MAX_PORT + 1}

StackBodies ==
  { Body("", "redis", "net", FALSE, 0, {}),
    Body("app", "mysql", "net", FALSE, 0, {}),
    Body("app", "redis", "net", FALSE, 0, {}) }
  \cup { Body("app", "Redis", "net", TRUE, p, {}) : p \in Ports }
  \cup { Body("app", "n8n", "net", FALSE, 0, ConfigFields) }
  \cup { Body("app", "N8N", "net", FALSE, 0, ConfigFields \ {f}) :
           f \in ConfigFields }

\* a setTimeout of a request in flight is not due yet
TimerPending == \E r \in ReqIds : req[r].pc \in N8nStages /\ ~TimerDue(req[r])

\* the clock reaches the expiry of the startup token before the request
Expire ==
  /\ now = 0
  /\ phase = "listening"
  /\ req[1].pc = "idle"
  /\ Tick(JWT_TTL)

\* the clock reaches the next timer
TimerTick == TimerPending /\ Tick(STACK_TIMEOUT)

NextStack ==
  \/ \E o \in ConcLoginOutcomes : StartupLogin(o)
  \/ Expire
  \/ TimerTick
  \/ \E body \in StackBodies : Arrive(1, "stack", ConcHeader, body)
  \/ \E o \in Outcomes : LoginResp(1, o)
  \/ \E o \in Outcomes : SwarmResp(1, o)
  \/ \E o \in Outcomes : CreateResp(1, o)
  \/ \E o \in Outcomes : N8nResp(1, o)
  \/ N8nTimeout(1)

SpecStack == InitConc /\ [][NextStack]_vars

\* node runs a timer that is due, and time passes
SpecStackFair ==
  /\ SpecStack
  /\ WF_vars(TimerTick)
  /\ WF_vars(N8nTimeout(1))

(***************************************************************************)
(* SpecDns: MaxReqs POST /api/cloudflare requests in flight at once, for   *)
(* one name, against a zone that holds no record at the start.  SpecDnsSeq *)
(* is the same with the requests one after the other: a request arrives    *)
(* when the response of the one before has been sent.                      *)
(***************************************************************************)
DnsBodies ==
  { DnsBody("app", "A", <<"1.2.3.4">>, <<>>, "undefined"),
    DnsBody("app", "a", <<>>, <<"5.6.7.8">>, "undefined"),
    DnsBody("app", "cname", <<"https://", "new.host">>, <<>>, "undefined"),
    DnsBody("", "A", <<"1.2.3.4">>, <<>>, "undefined"),
    DnsBody("app", "", <<"1.2.3.4">>, <<>>, "undefined"),
    DnsBody("app", "A", <<>>, <<>>, "undefined"),
    DnsBody("app", "txt", <<"v=1">>, <<>>, "undefined") }

\* bodies for every value of proxied and every type of record
ProxiedBodies ==
  { DnsBody("app", "A", <<"1.2.3.4">>, <<>>, v) : v \in ProxiedValues }
  \cup { DnsBody("app", "AAAA", <<"::1">>, <<>>, v) : v \in ProxiedValues }
  \cup { DnsBody("app", "cname", <<"new.host">>, <<>>, v) :
           v \in ProxiedValues }

InitDns ==
  /\ InitServer({Secret}, {UNDEF, <<"c">>})
  /\ zone = {}
  /\ ingress = <<>>

DnsSteps ==
  \/ \E o \in ConcLoginOutcomes : StartupLogin(o)
  \/ \E r \in ReqIds : ProviderLists(r)
  \/ \E r \in ReqIds, o \in ConcOutcomes : DnsLookupResp(r, o)
  \/ \E r \in ReqIds, o \in ConcOutcomes : DnsWriteResp(r, o)

NextDns ==
  \/ DnsSteps
  \/ \E r \in ReqIds, body \in DnsBodies :
       /\ \A q \in 1..(r-1) : req[q].pc # "idle"
       /\ Arrive(r, "cloudflare", ConcHeader, body)

SpecDns == InitDns /\ [][NextDns]_vars

NextDnsSeq ==
  \/ DnsSteps
  \/ \E r \in ReqIds, body \in DnsBodies :
       /\ \A q \in 1..(r-1) : req[q].pc = "done"
       /\ Arrive(r, "cloudflare", ConcHeader, body)

SpecDnsSeq == InitDns /\ [][NextDnsSeq]_vars

(***************************************************************************)
(* SpecTunnel: POST /api/cloudflare/tunnel requests one after the other,   *)
(* against a tunnel that holds any list of up to MaxRules rules at the     *)
(* start (the tunnel is also configured by other means than this server).  *)
(***************************************************************************)
StartRules ==
  { Rule(<<"a", "dom", "com">>, <<"http://", "old:80">>, "none"),
    Rule(<<"b", "dom", "com">>, <<"http://", "b:80">>, "none"),
    Rule(UNDEF, <<"http_status:404">>, "none"),
    Rule(<<>>, <<"http_status:503">>, "none") }

RECURSIVE RuleLists(_)
RuleLists(n) ==
  IF n = 0 THEN {<<>>}
  ELSE RuleLists(n - 1)
         \cup {Append(l, rule) : l \in RuleLists(n - 1), rule \in StartRules}

TunnelBodies ==
  { TunnelBody(<<"a">>, <<"http://", "new:5678">>, "80", "http"),
    TunnelBody(<<"a", "dom", "com">>, <<"new">>, "8080", "http"),
    TunnelBody(<<"c", "d">>, <<"tcp://", "c:6379">>, "80", "http"),
    TunnelBody(<<"a">>, <<"https://", "new:5678">>, "80", "http"),
    TunnelBody(<<"c", "d">>, <<"ssh://", "new:22">>, "80", "http"),
    TunnelBody(<<>>, <<"new">>, "80", "http"),
    TunnelBody(<<"a">>, <<>>, "80", "http") }

InitTunnel ==
  /\ InitServer({Secret}, {UNDEF, <<"c">>})
  /\ zone = {}
  /\ ingress \in RuleLists(MaxRules)

NextTunnel ==
  \/ \E o \in ConcLoginOutcomes : StartupLogin(o)
  \/ \E body \in TunnelBodies : Arrive(1, "tunnel", ConcHeader, body)
  \/ ProviderFetches(1)
  \/ \E o \in ConcOutcomes : TunnelFetchResp(1, o)
  \/ \E o \in ConcOutcomes : TunnelPushResp(1, o)
  \/ Reset(1)

SpecTunnel == InitTunnel /\ [][NextTunnel]_vars

(***************************************************************************)
(* SpecTunnelConc: MaxReqs POST /api/cloudflare/tunnel requests in flight  *)
(* at once, for two hostnames, against a tunnel that holds at most one     *)
(* rule at the start.                                                      *)
(***************************************************************************)
ConcTunnelBodies ==
  { TunnelBody(<<"a">>, <<"http://", "new:5678">>, "80", "http"),
    TunnelBody(<<"a">>, <<"new">>, "8080", "http"),
    TunnelBody(<<"c", "d">>, <<"tcp://", "c:6379">>, "80", "http") }

InitTunnelConc ==
  /\ InitServer({Secret}, {<<"c">>})
  /\ zone = {}
  /\ ingress \in RuleLists(1)

NextTunnelConc ==
  \/ \E o \in ConcLoginOutcomes : StartupLogin(o)
  \/ \E r \in ReqIds, body \in ConcTunnelBodies :
       /\ \A q \in 1..(r-1) : req[q].pc # "idle"
       /\ Arrive(r, "tunnel", ConcHeader, body)
  \/ \E r \in ReqIds : ProviderFetches(r)
  \/ \E r \in ReqIds, o \in ConcOutcomes : TunnelFetchResp(r, o)
  \/ \E r \in ReqIds, o \in ConcOutcomes : TunnelPushResp(r, o)

SpecTunnelConc == InitTunnelConc /\ [][NextTunnelConc]_vars

(***************************************************************************)
(* SpecStackConc: one POST /api/stack request (slot 1) while slot 2 serves *)
(* GET /api/stacks and POST /api/auth/refresh requests, one after the      *)
(* other, which clear and renew the cache.  A call without a timer may     *)
(* take until the token has expired.                                       *)
(***************************************************************************)
ConcStackBodies ==
  { Body("app", "redis", "net", FALSE, 0, {}),
    Body("app", "n8n", "net", FALSE, 0, ConfigFields) }

ConcStackOutcomes == {"ok", "e401"}

\* a login, lookup, create or list call is pending until the token expires
LongWait ==
  /\ now < JWT_TTL
  /\ \E r \in ReqIds : req[r].pc \in {"login", "swarm", "create", "list"}
  /\ Tick(JWT_TTL)

NextStackConc ==
  \/ \E o \in ConcLoginOutcomes : StartupLogin(o)
  \/ LongWait
  \/ TimerTick
  \/ \E body \in ConcStackBodies : Arrive(1, "stack", ConcHeader, body)
  \/ \E route \in ConcRoutes : Arrive(2, route, ConcHeader, NoBody)
  \/ \E r \in {1, 2}, o \in ConcLoginOutcomes : LoginResp(r, o)
  \/ \E o \in ConcStackOutcomes : SwarmResp(1, o)
  \/ \E o \in ConcStackOutcomes : CreateResp(1, o)
  \/ \E o \in ConcStackOutcomes : N8nResp(1, o)
  \/ N8nTimeout(1)
  \/ \E o \in ConcStackOutcomes : ListResp(2, o)
  \/ Reset(2)

SpecStackConc == InitConc /\ [][NextStackConc]_vars

(***************************************************************************)
(* SpecAll: one request on any route, with every header and every body of  *)
(* the model and every outcome of every call, on a server started with or  *)
(* without a secret and with or without the DNS provider's token.  The     *)
(* startup token may have expired before the request arrives, and the     *)
(* zone may hold a record for the name of the request.                     *)
(***************************************************************************)
AllRoutes == GatedRoutes \cup {"health", "tipos"}

AllBodiesOf(route) ==
  CASE route = "stack" -> StackBodies
    [] route = "cloudflare" -> DnsBodies \cup ProxiedBodies
    [] route = "tunnel" -> TunnelBodies
    [] OTHER -> {NoBody}

\* a record the zone may hold for the name before the request
OldRecord ==
  [id |-> 1, type |-> "A", name |-> subdomain("app"),
   content |-> <<"9.9.9.9">>, proxied |-> TRUE]

InitAll ==
  /\ InitServer({UNDEF, Secret}, {UNDEF, <<"c">>})
  /\ zone \in {{}, {OldRecord}}
  /\ ingress = <<>>

NextAll ==
  \/ \E o \in Outcomes : StartupLogin(o)
  \/ Expire
  \/ TimerTick
  \/ \E route \in AllRoutes :
       \E hdr \in HeadersOf(route), body \in AllBodiesOf(route) :
         Arrive(1, route, hdr, body)
  \/ \E o \in Outcomes : LoginResp(1, o)
  \/ \E o \in Outcomes : SwarmResp(1, o)
  \/ \E o \in Outcomes : CreateResp(1, o)
  \/ \E o \in Outcomes : ListResp(1, o)
  \/ \E o \in Outcomes : N8nResp(1, o)
  \/ N8nTimeout(1)
  \/ ProviderLists(1)
  \/ \E o \in Outcomes : DnsLookupResp(1, o)
  \/ \E o \in Outcomes : DnsWriteResp(1, o)
  \/ ProviderFetches(1)
  \/ \E o \in Outcomes : TunnelFetchResp(1, o)
  \/ \E o \in Outcomes : TunnelPushResp(1, o)

SpecAll == InitAll /\ [][NextAll]_vars

\* the login and the calls without a timer return; node runs a timer that
\* is due, and time passes
SpecAllFair ==
  /\ SpecAll
  /\ WF_vars(TimerTick)
  /\ WF_vars(N8nTimeout(1))
  /\ WF_vars(\E o \in Outcomes : LoginResp(1, o))
  /\ WF_vars(\E o \in Outcomes : SwarmResp(1, o))
  /\ WF_vars(\E o \in Outcomes : CreateResp(1, o))
  /\ WF_vars(\E o \in Outcomes : ListResp(1, o))
  /\ WF_vars(\E o \in Outcomes : DnsLookupResp(1, o))
  /\ WF_vars(\E o \in Outcomes : DnsWriteResp(1, o))
  /\ WF_vars(\E o \in Outcomes : TunnelFetchResp(1, o))
  /\ WF_vars(\E o \in Outcomes : TunnelPushResp(1, o))

TypeOK ==
  /\ phase \in {"starting", "listening", "exited"}
  /\ jwtCache.token \in Tokens \cup {NULL}
  /\ loginCalls \in 0..MaxLogins
  /\ issued \in 0..MaxLogins

(***************************************************************************)
(* Steps of a request, as seen in a pair of states.                        *)
(***************************************************************************)
\* request r calls getValidJWT() in this step
CallsGetValidJWT(r) ==
  /\ req[r].pc = "idle"
  /\ req'[r].pc \in {"login", "swarm", "list"}
  /\ req'[r].route \in {"stack", "stacks"}

\* the login call of request r returns a token in this step
LoginOkStep(r) ==
  /\ req[r].pc = "login"
  /\ req'[r].pc # "login"
  /\ req'[r].calls[Len(req[r].calls)].out = "ok"

\* the login call of request r fails in this step
LoginFailStep(r) ==
  /\ req[r].pc = "login"
  /\ req'[r].pc # "login"
  /\ req'[r].calls[Len(req[r].calls)].out # "ok"

\* a call of request r other than the login is answered 401 in this step
Observes401(r) ==
  /\ req[r].pc \in {"swarm", "create", "list"} \cup N8nStages
  /\ req'[r].calls[Len(req[r].calls)].out = "e401"

\* request r obtained its token through a login of its own
ViaLogin(r) ==
  /\ req[r].route \in {"stack", "stacks"}
  /\ Len(req[r].calls) >= 1
  /\ req[r].calls[1].call = "login"

GateMessages == {"Token de autenticacao nao fornecido", "Token invalido"}
GateRejected(rq) == rq.pc = "done" /\ rq.details \in GateMessages

(***************************************************************************)
(* C1.  After a successful login, as long as the clock is before the       *)
(* expiry that login recorded and the cache has not been invalidated (by a *)
(* 401 or by /api/auth/refresh), every getValidJWT() call returns the      *)
(* token of that login and issues no login call.                           *)
(***************************************************************************)
C1_CachedTokenReused ==
  [][\A r \in ReqIds :
       (/\ CallsGetValidJWT(r)
        /\ lastLogin.token # NULL
        /\ now < lastLogin.expiresAt
        /\ ~invalidated)
       => (/\ loginCalls' = loginCalls
           /\ req'[r].pc # "login"
           /\ req'[r].tok = lastLogin.token
           /\ req'[r].calls[1].tok = lastLogin.token)]_vars

\* a request holds the cached token, taken without a login after time passed
C1_Witness ==
  \E r \in ReqIds :
    /\ req[r].pc \in {"swarm", "list"}
    /\ Len(req[r].calls) = 1
    /\ req[r].tok = lastLogin.token
    /\ now > 0
    /\ loginCalls = 1

(***************************************************************************)
(* C2.  After a call to Portainer other than the login has been answered   *)
(* 401, the next getValidJWT() call issues a login.                        *)
(***************************************************************************)
C2_ReloginAfter401 ==
  [][\A r \in ReqIds :
       (CallsGetValidJWT(r) /\ denied)
       => (loginCalls' = loginCalls + 1 /\ req'[r].pc = "login")]_vars

(***************************************************************************)
(* C3.  As claimed: of the getValidJWT() calls that found the cache empty, *)
(* at most one has a login call in flight (the others share it).           *)
(***************************************************************************)
C3_SingleFlight ==
  Cardinality({r \in ReqIds :
     req[r].pc = "login" /\ ViaLogin(r) /\ req[r].seen = NULL}) <= 1

(***************************************************************************)
(* C3, amended.  Every getValidJWT() call that finds no valid token issues *)
(* a login call of its own: the logins in flight are as many as the        *)
(* waiting callers, and two callers that logged in hold different tokens.  *)
(***************************************************************************)
C3_OwnLoginEach ==
  /\ \A r1, r2 \in ReqIds :
       (/\ r1 # r2
        /\ ViaLogin(r1) /\ req[r1].calls[1].out = "ok"
        /\ ViaLogin(r2) /\ req[r2].calls[1].out = "ok")
       => req[r1].tok # req[r2].tok
  /\ Cardinality({r \in ReqIds : req[r].pc = "login"}) + issued
       + (IF phase = "starting" THEN 1 ELSE 0) <= loginCalls

\* two callers that found the cache empty wait for a login each
C3_Witness ==
  \E r1, r2 \in ReqIds :
    /\ r1 # r2
    /\ req[r1].pc = "login" /\ ViaLogin(r1) /\ req[r1].seen = NULL
    /\ req[r2].pc = "login" /\ ViaLogin(r2) /\ req[r2].seen = NULL
    /\ jwtCache.token = NULL

(***************************************************************************)
(* C4.  getValidJWT() returns the cached token only if the recorded        *)
(* expiresAt is later than the current time; with a cached token whose     *)
(* expiresAt is not later, it issues a login.                              *)
(***************************************************************************)
C4_NeverReturnsExpired ==
  [][\A r \in ReqIds :
       CallsGetValidJWT(r)
       => /\ (req'[r].pc # "login")
               => (jwtCache.expiresAt > now /\ req'[r].tok = jwtCache.token)
          /\ (jwtCache.token # NULL /\ jwtCache.expiresAt <= now)
               => req'[r].pc = "login"]_vars

\* a caller waits for a login while the cache holds a token that expired
\* at this very instant
C4_Witness ==
  \E r \in ReqIds :
    /\ req[r].pc = "login" /\ ViaLogin(r)
    /\ jwtCache.token # NULL
    /\ jwtCache.expiresAt = now

(***************************************************************************)
(* C5.  When the clock has passed the expiresAt of the cached token, the   *)
(* next getValidJWT() call issues one login call; when that login          *)
(* succeeds the caller gets its token, which is not the old cached one,    *)
(* and the cache holds it.                                                 *)
(***************************************************************************)
C5_ExpiredRelogin ==
  [][\A r \in ReqIds :
       /\ (CallsGetValidJWT(r) /\ jwtCache.token # NULL
             /\ now >= jwtCache.expiresAt)
            => (/\ loginCalls' = loginCalls + 1
                /\ req'[r].pc = "login"
                /\ req'[r].calls = <<[call |-> "login", tok |-> NULL,
                                      out |-> "pending"]>>)
       /\ (LoginOkStep(r) /\ ViaLogin(r))
            => (/\ req'[r].tok = issued'
                /\ req'[r].tok # req[r].seen
                /\ req'[r].tok # jwtCache.token
                /\ jwtCache'.token = req'[r].tok
                /\ loginCalls' = loginCalls
                /\ Len(req'[r].calls) = 2)]_vars

\* a caller that found an expired token holds the token of its own login
C5_Witness ==
  \E r \in ReqIds :
    /\ ViaLogin(r) /\ req[r].calls[1].out = "ok"
    /\ req[r].seen # NULL
    /\ req[r].tok = jwtCache.token
    /\ req[r].tok # req[r].seen

(***************************************************************************)
(* C6.  As claimed: a failed login leaves jwtCache as it was and the       *)
(* request fails with an error that carries the detail of the failure of   *)
(* the login call.                                                         *)
(***************************************************************************)
C6_CarriesDetail ==
  [][\A r \in ReqIds :
       LoginFailStep(r)
       => (/\ jwtCache' = jwtCache
           /\ req'[r].pc = "done"
           /\ req'[r].details =
                ErrDetail(req'[r].calls[Len(req[r].calls)].out))]_vars

(***************************************************************************)
(* C6, amended.  A failed login leaves jwtCache as it was and the request  *)
(* fails with status 500 and the fixed message of authenticatePortainer,   *)
(* whatever the failure of the login call was.                             *)
(***************************************************************************)
C6_FailureLeavesCache ==
  [][\A r \in ReqIds :
       LoginFailStep(r)
       => (/\ jwtCache' = jwtCache
           /\ issued' = issued
           /\ req'[r].pc = "done"
           /\ req'[r].status = 500
           /\ req'[r].details = AuthFailMsg)]_vars

\* a login failed while the cache held an (expired) token, which is still there
C6_Witness ==
  \E r \in ReqIds :
    /\ req[r].pc = "done"
    /\ Len(req[r].calls) = 1
    /\ req[r].calls[1].call = "login"
    /\ req[r].calls[1].out = "enet"
    /\ jwtCache.token # NULL

(***************************************************************************)
(* C7.  Every successful login replaces the whole cache, in the step in    *)
(* which it completes, by the token it returned and the time of completion *)
(* plus 8 hours, and returns that token to its caller; the cache always    *)
(* holds nothing or what the latest successful login wrote.                *)
(***************************************************************************)
C7_LoginReplacesCache ==
  [][/\ (issued' # issued)
          => jwtCache' = [token |-> issued',
                          expiresAt |-> now + 8 * 60 * 60 * 1000]
     /\ \A r \in ReqIds :
          (LoginOkStep(r) /\ ViaLogin(r)) => req'[r].tok = jwtCache'.token
     /\ jwtCache' \in {EmptyCache, lastLogin'}]_vars

\* a second login has overwritten the credential of the first
C7_Witness ==
  /\ jwtCache.token = 2
  /\ jwtCache.expiresAt = now + JWT_TTL
  /\ now > 0

(***************************************************************************)
(* C8.  As claimed: when a call to Portainer of a request is answered 401, *)
(* the handler resets jwtCache, and the request issues no login call and   *)
(* does not repeat the call.                                               *)
(***************************************************************************)
C8_Clear401 ==
  [][\A r \in ReqIds :
       Observes401(r)
       => (/\ jwtCache' = EmptyCache
           /\ loginCalls' = loginCalls
           /\ \A i \in 1..Len(req'[r].calls) :
                i > Len(req[r].calls) =>
                  req'[r].calls[i].call # req[r].calls[Len(req[r].calls)].call)]_vars

(***************************************************************************)
(* C9.  The bearer gate of the protected routes: without a configured      *)
(* secret no request is rejected by the gate; with one, a request without  *)
(* a token is answered 401 and a request with another token 403, and a     *)
(* rejected request changes nothing and calls nothing; a request with the  *)
(* secret passes.                                                          *)
(***************************************************************************)
\* the token of a header of the form "<scheme> <token>", UNDEF without one
BearerTokenOf(h) ==
  IF h = UNDEF \/ Len(h) < 3 \/ h[2] # " " THEN UNDEF ELSE <<h[3]>>

C9_BearerGate ==
  [][\A r \in ReqIds :
       (req[r].pc = "idle" /\ req'[r].pc # "idle"
          /\ req'[r].route \in GatedRoutes)
       => LET rq == req'[r]
              t == BearerTokenOf(rq.hdr)
              untouched == /\ rq.calls = <<>>
                           /\ jwtCache' = jwtCache
                           /\ loginCalls' = loginCalls
                           /\ rq.authenticated = FALSE
          IN IF env.AUTH_TOKEN = UNDEF THEN ~GateRejected(rq)
             ELSE IF t = UNDEF
               THEN GateRejected(rq) /\ rq.status = 401 /\ untouched
             ELSE IF t # env.AUTH_TOKEN
               THEN GateRejected(rq) /\ rq.status = 403 /\ untouched
             ELSE ~GateRejected(rq)]_vars

\* with a secret configured, a refresh request with another token was
\* answered 403 and the cache still holds the token
C9_Witness ==
  \E r \in ReqIds :
    /\ env.AUTH_TOKEN = Secret
    /\ req[r].route = "refresh"
    /\ req[r].hdr = <<"B", " ", "x">>
    /\ req[r].status = 403
    /\ jwtCache.token # NULL

(***************************************************************************)
(* C10.  As claimed: a POST /api/stack request answered with a validation  *)
(* error (missing nome, tipo or rede, redis port out of range, incomplete  *)
(* n8n config) has issued no call to Portainer: no login, no swarm lookup, *)
(* no create.                                                              *)
(***************************************************************************)
ValidationMessages ==
  {"Campos obrigatorios: nome, tipo, rede", "Porta invalida",
   "Configuracoes obrigatorias para N8N"}

C10_ValidateFirst ==
  \A r \in ReqIds :
    (/\ req[r].pc = "done" /\ req[r].route = "stack"
     /\ req[r].status = 400 /\ req[r].details \in ValidationMessages)
      => req[r].calls = <<>>

(***************************************************************************)
(* What a POST /api/stack request has done so far.                         *)
(***************************************************************************)
\* the request has issued a call of the kind c
HasCall(rq, c) == \E i \in 1..Len(rq.calls) : rq.calls[i].call = c

\* the swarm lookup of the request has succeeded
SwarmOk(rq) ==
  \E i \in 1..Len(rq.calls) :
    rq.calls[i].call = "swarm" /\ rq.calls[i].out = "ok"

\* the request asks for a stack of the type t
AsksFor(rq, t) == rq.route = "stack" /\ toLowerCase(rq.body.tipo) = t

\* the request was answered 400 with the error d
Rejected(rq, d) == rq.pc = "done" /\ rq.status = 400 /\ rq.details = d

(***************************************************************************)
(* C11.  As claimed: a redis request with a port outside [1024, 65535]     *)
(* (0 and negative values included) never issues a create call and, once   *)
(* the handler reaches the port check, is answered 400; with a port inside *)
(* the range the create call is issued for that port; with no port it is   *)
(* issued for 6379.                                                        *)
(***************************************************************************)
C11_PortRange ==
  \A r \in ReqIds :
    LET rq == req[r]
        b == rq.body
        outside == b.porta < 1024 \/ b.porta > 65535
    IN AsksFor(rq, "redis") =>
         /\ (b.hasPorta /\ outside) =>
               /\ ~HasCall(rq, "create")
               /\ SwarmOk(rq) => Rejected(rq, "Porta invalida")
         /\ (b.hasPorta /\ ~outside /\ SwarmOk(rq)) =>
               (HasCall(rq, "create") /\ rq.porta = b.porta)
         /\ (~b.hasPorta /\ SwarmOk(rq)) =>
               (HasCall(rq, "create") /\ rq.porta = 6379)

(***************************************************************************)
(* C12.  As claimed: an n8n request whose config lacks any one of the six  *)
(* required fields never issues a create call and, once the handler        *)
(* reaches the config check, is answered 400.                              *)
(***************************************************************************)
C12_ConfigRequired ==
  \A r \in ReqIds :
    LET rq == req[r]
    IN (AsksFor(rq, "n8n") /\ rq.body.config # ConfigFields) =>
         /\ \A c \in N8nStages : ~HasCall(rq, c)
         /\ SwarmOk(rq) =>
              Rejected(rq, "Configuracoes obrigatorias para N8N")

(***************************************************************************)
(* The n8n fan-out of a request, as its call log shows it.                 *)
(***************************************************************************)
StageOrder == <<"editor", "webhook", "worker">>

IsStageCall(c) == c.call \in N8nStages

\* the create calls of the request, in the order of their issue
StageCalls(rq) == SelectSeq(rq.calls, IsStageCall)

\* how many create calls of the request have ended (settled or timed out)
EndedStages(rq) ==
  Cardinality({i \in 1..Len(rq.calls) :
     IsStageCall(rq.calls[i]) /\ rq.calls[i].out # "pending"})

\* an n8n request with all six config fields whose swarm lookup succeeded
FanOutOf(rq) ==
  AsksFor(rq, "n8n") /\ rq.body.config = ConfigFields /\ SwarmOk(rq)

(***************************************************************************)
(* C13.  An n8n request with complete config that passed the login and the *)
(* swarm lookup issues the create calls editor, webhook, worker, three in  *)
(* all when it ends; the entries of stacks and errors are as many as the   *)
(* calls that ended, 3 in the response; success:true comes with            *)
(* stacksCriadas in 1..3, and with nothing created the response is 500     *)
(* with success:false.                                                     *)
(***************************************************************************)
C13_ThreeCreates ==
  \A r \in ReqIds :
    LET rq == req[r]
        sc == StageCalls(rq)
    IN FanOutOf(rq) =>
         /\ Len(sc) \in 1..3
         /\ \A i \in 1..Len(sc) : sc[i].call = StageOrder[i]
         /\ Len(rq.created) + Len(rq.errors) = EndedStages(rq)
         /\ {e.tipo : e \in {rq.created[i] : i \in 1..Len(rq.created)}}
               \cap {e.stack : e \in {rq.errors[i] : i \in 1..Len(rq.errors)}}
               = {}
         /\ rq.pc = "done" =>
               /\ Len(sc) = 3
               /\ Len(rq.created) + Len(rq.errors) = 3
               /\ rq.success \in {"true", "false"}
               /\ rq.success = "true" =>
                     (rq.status = 200 /\ rq.stacksCriadas \in 1..3
                        /\ rq.stacksCriadas = Len(rq.created))
               /\ Len(rq.created) = 0 =>
                     (rq.success = "false" /\ rq.status = 500)

\* a fan-out ended with one stack created and two failures
C13_Witness ==
  \E r \in ReqIds :
    /\ FanOutOf(req[r]) /\ req[r].pc = "done"
    /\ req[r].success = "true"
    /\ req[r].stacksCriadas = 1
    /\ Len(req[r].errors) = 2
    /\ Len(StageCalls(req[r])) = 3

(***************************************************************************)
(* C14.  When a create call of the fan-out fails (401, another status, or  *)
(* no response), the failure is appended to errors under the name of its   *)
(* instance, the entries of stacks stay as they are, no call already made  *)
(* is undone, and the request goes on: the next create call is issued      *)
(* with the same token, or, after the worker, the response is sent.        *)
(***************************************************************************)
C14_FailureIsolated ==
  [][\A r \in ReqIds :
       LET n == Len(req[r].calls)
           o == req'[r].calls[n].out
       IN (req[r].pc \in N8nStages /\ o \in {"e401", "e500", "enet"})
          => /\ req'[r].errors =
                   Append(req[r].errors,
                          [stack |-> req[r].pc, error |-> ErrMessage(o)])
             /\ req'[r].created = req[r].created
             /\ \A i \in 1..(n-1) : req'[r].calls[i] = req[r].calls[i]
             /\ IF req[r].pc = "worker"
                  THEN /\ req'[r].pc = "done"
                       /\ Len(req'[r].calls) = n
                       /\ req'[r].status =
                            (IF req[r].created = <<>> THEN 500 ELSE 200)
                  ELSE /\ req'[r].pc =
                            (IF req[r].pc = "editor" THEN "webhook" ELSE "worker")
                       /\ Len(req'[r].calls) = n + 1
                       /\ req'[r].calls[n+1] =
                            [call |-> req'[r].pc, tok |-> req[r].tok,
                             out |-> "pending"]]_vars

\* the editor call was answered 401 and the two other stacks were created
C14_Witness ==
  \E r \in ReqIds :
    /\ FanOutOf(req[r]) /\ req[r].pc = "done"
    /\ req[r].errors = <<[stack |-> "editor",
                          error |-> "Request failed with status code 401"]>>
    /\ Len(req[r].created) = 2
    /\ req[r].status = 200

(***************************************************************************)
(* C15.  An instance of the fan-out is reported in stacks with status      *)
(* 'criado' and no id exactly when the callback of its timer ran while its *)
(* create call was pending, which happens only once the timer is due, and  *)
(* then it is not in errors; it is reported with status 'confirmado' and   *)
(* an id exactly when its create call succeeded before the callback of the *)
(* timer ran.                                                              *)
(***************************************************************************)
C15_TimeoutDistinct ==
  /\ [](\A r \in ReqIds :
         LET rq == req[r]
             stacks == {rq.created[i] : i \in 1..Len(rq.created)}
             errs == {rq.errors[i] : i \in 1..Len(rq.errors)}
         IN rq.route = "stack" =>
              /\ \A e \in stacks :
                    /\ e.status \in {"criado", "confirmado"}
                    /\ e.hasId <=> (e.status = "confirmado")
              /\ \A i \in 1..Len(rq.calls) :
                    LET c == rq.calls[i]
                    IN IsStageCall(c) =>
                         /\ (c.out = "timeout") <=>
                              [tipo |-> c.call, status |-> "criado",
                               hasId |-> FALSE] \in stacks
                         /\ (c.out = "ok") <=>
                              [tipo |-> c.call, status |-> "confirmado",
                               hasId |-> TRUE] \in stacks
                         /\ (c.out = "timeout") =>
                              (\A e \in errs : e.stack # c.call))
  /\ [][\A r \in ReqIds :
          LET n == Len(req[r].calls)
              o == req'[r].calls[n].out
          IN (req[r].pc \in N8nStages /\ o # "pending")
             => /\ req[r].calls[n].out = "pending"
                /\ (o = "timeout")
                     => (/\ now >= req[r].deadline - 1
                         /\ req'[r].errors = req[r].errors
                         /\ req'[r].created =
                              Append(req[r].created,
                                     [tipo |-> req[r].pc, status |-> "criado",
                                      hasId |-> FALSE]))
                /\ (o = "ok")
                     => (/\ req'[r].errors = req[r].errors
                         /\ req'[r].created =
                              Append(req[r].created,
                                     [tipo |-> req[r].pc,
                                      status |-> "confirmado",
                                      hasId |-> TRUE]))]_vars

\* one response reports an unconfirmed and a confirmed instance
C15_Witness ==
  \E r \in ReqIds :
    /\ req[r].pc = "done"
    /\ [tipo |-> "editor", status |-> "criado", hasId |-> FALSE]
         \in {req[r].created[i] : i \in 1..Len(req[r].created)}
    /\ [tipo |-> "webhook", status |-> "confirmado", hasId |-> TRUE]
         \in {req[r].created[i] : i \in 1..Len(req[r].created)}

(***************************************************************************)
(* C16.  With the timers of node, a create call of the fan-out that never  *)
(* returns does not stop the request: after the editor call the webhook    *)
(* call is issued, after it the worker call, and the response is sent,     *)
(* whether or not any create call returns.                                 *)
(***************************************************************************)
C16_FanOutCompletes ==
  \A r \in ReqIds :
    /\ (req[r].pc = "editor") ~> HasCall(req[r], "webhook")
    /\ (req[r].pc = "webhook") ~> HasCall(req[r], "worker")
    /\ (req[r].pc \in N8nStages) ~> (req[r].pc = "done")

\* the response was sent although none of the three create calls returned
C16_Witness ==
  \E r \in ReqIds :
    /\ req[r].pc = "done"
    /\ req[r].status = 200
    /\ Len(req[r].created) = 3
    /\ \A i \in 1..3 : req[r].created[i].status = "criado"
    /\ now = req[r].deadline

(***************************************************************************)
(* What a POST /api/cloudflare request has done so far.                    *)
(***************************************************************************)
IsWriteCall(c) == c.call \in {"put", "post"}

\* the write calls of the request
WriteCalls(rq) == SelectSeq(rq.calls, IsWriteCall)

\* the lookup call of the request has succeeded
LookupOk(rq) ==
  /\ rq.route = "cloudflare"
  /\ Len(rq.calls) >= 1
  /\ rq.calls[1].call = "lookup" /\ rq.calls[1].out = "ok"

\* the provider holds at most one record of every name
OneRecordPerName ==
  \A rec1, rec2 \in zone : rec1.name = rec2.name => rec1 = rec2

(***************************************************************************)
(* C17.  A POST /api/cloudflare request whose lookup call succeeded issues *)
(* exactly one write call: the update of the record the lookup returned    *)
(* for the fully-qualified name if it returned one, otherwise the create;  *)
(* a request whose lookup has not succeeded issues none.  The lookup       *)
(* returns what the provider answered, and the provider answers with a     *)
(* record it holds for the name if it holds one, otherwise with none.      *)
(***************************************************************************)
C17_ExactlyOneWrite ==
  /\ [](\A r \in ReqIds :
         LET rq == req[r]
             w == WriteCalls(rq)
         IN rq.route = "cloudflare" =>
              /\ Len(w) <= 1
              /\ LookupOk(rq) <=> (Len(w) = 1)
              /\ Len(w) = 1 =>
                   w[1].call =
                     (IF rq.existing # <<>> THEN "put" ELSE "post"))
  /\ [][\A r \in ReqIds :
          /\ (req[r].pc = "lookup" /\ req[r].answer = <<>>
                 /\ req'[r].answer # <<>>)
             => LET held == {rec \in zone :
                              rec.name = <<req[r].body.nome, "example.com">>}
                    result == req'[r].answer[1]
                IN IF held # {}
                     THEN result # <<>> /\ result[1] \in held
                     ELSE result = <<>>
          /\ (req[r].pc = "lookup" /\ LookupOk(req'[r]))
             => LET result == req[r].answer[1]
                IN /\ req'[r].existing = result
                   /\ req'[r].pc = (IF result # <<>> THEN "put" ELSE "post")
                   /\ req'[r].recordData[1].name
                        = <<req[r].body.nome, "example.com">>]_vars

\* a request found a record and its update call succeeded
C17_Witness ==
  \E r \in ReqIds :
    /\ req[r].route = "cloudflare" /\ req[r].pc = "done"
    /\ req[r].status = 200
    /\ Len(req[r].calls) = 2
    /\ req[r].calls[2] = [call |-> "put", tok |-> NULL, out |-> "ok"]

(***************************************************************************)
(* C18.  Of two equal DNS requests, the second arriving after the response *)
(* of the first, against a zone without records: the first issued one      *)
(* create call; the second, once its lookup succeeded, issues one update   *)
(* call for the record the first created and no create call, and the zone  *)
(* holds that one record (as the two requests wrote it, until a later      *)
(* request writes).                                                        *)
(***************************************************************************)
C18_CreateThenUpdate ==
  (/\ req[1].route = "cloudflare" /\ req[1].pc = "done"
   /\ req[1].status = 200
   /\ req[2].body = req[1].body
   /\ LookupOk(req[2]))
  => /\ Len(req[1].calls) = 2 /\ req[1].calls[2].call = "post"
     /\ Len(req[2].calls) = 2 /\ req[2].calls[2].call = "put"
     /\ req[2].existing[1].id = req[1].recordId
     /\ {rec.id : rec \in zone} = {req[1].recordId}
     /\ (req[2].pc = "done" /\ req[2].status = 200) =>
          (/\ req[2].recordId = req[1].recordId
           /\ (\A r \in ReqIds \ {1, 2} : req[r].pc = "idle") =>
                zone = {ProviderRecord(req[1].recordId, req[1].recordData[1])})

\* the second of two equal requests has updated the record of the first
C18_Witness ==
  /\ req[1].route = "cloudflare" /\ req[1].status = 200
  /\ req[2].body = req[1].body
  /\ req[2].pc = "done" /\ req[2].status = 200
  /\ req[2].calls[2] = [call |-> "put", tok |-> NULL, out |-> "ok"]
  /\ Cardinality(zone) = 1

(***************************************************************************)
(* C19.  As claimed: starting from a zone without records, the provider    *)
(* holds at most one record of a name, however the lookup and write calls  *)
(* of the requests interleave.                                             *)
(***************************************************************************)
C19_AtMostOne == OneRecordPerName

(***************************************************************************)
(* C19, amended.  Starting from a zone without records, the provider holds *)
(* at most one record of a name as long as the requests for the name did   *)
(* not overlap: none issued its lookup call while another was between its  *)
(* lookup call and the response to its write call.  (A lookup is answered  *)
(* with what the provider held when it answered, which a write of another  *)
(* request may have changed before the answer arrives or before the write  *)
(* that follows it.)                                                       *)
(***************************************************************************)
C19_AtMostOneUnlessRaced ==
  (\A r \in ReqIds : ~req[r].raced) => OneRecordPerName

\* two requests with different targets, one after the other: one record,
\* which holds the target of the second
C19_Witness ==
  /\ \A r \in {1, 2} : req[r].pc = "done" /\ req[r].status = 200
                           /\ ~req[r].raced
  /\ req[1].recordData # req[2].recordData
  /\ zone = {ProviderRecord(1, req[2].recordData[1])}

(***************************************************************************)
(* The rule lists of an ingress registration.                              *)
(***************************************************************************)
IsCatchAll(rule) == ~Truthy(rule.hostname)

\* the places of a rule list that hold a rule of the hostname h
RulesOf(rules, h) == {i \in 1..Len(rules) : rules[i].hostname = h}

\* the places of a rule list that hold a rule without a hostname
CatchAlls(rules) == {i \in 1..Len(rules) : IsCatchAll(rules[i])}

\* the registration of the request has been pushed and accepted
Registered(rq) ==
  /\ rq.route = "tunnel" /\ rq.pc = "done" /\ rq.status = 200
  /\ HasCall(rq, "push")

\* in the list, the rules with a hostname come before the rules without,
\* of which there is at most one, and the list ends with a rule without a
\* hostname if the fetched list held one
CatchAllLast(fetched, pushed) ==
  /\ \A i \in 1..Len(pushed) : \A j \in CatchAlls(pushed) :
        ~IsCatchAll(pushed[i]) => i < j
  /\ Cardinality(CatchAlls(pushed)) <= 1
  /\ CatchAlls(fetched) # {} => CatchAlls(pushed) = {Len(pushed)}

(***************************************************************************)
(* C20.  As claimed: whatever rule list was fetched, in the list pushed by *)
(* a successful registration the rules with a hostname precede the         *)
(* catch-all, the catch-all is last if one existed, there is at most one   *)
(* catch-all, and no hostname appears in more than one rule.               *)
(***************************************************************************)
C20_IngressWellFormed ==
  \A r \in ReqIds :
    Registered(req[r]) =>
      LET pushed == req[r].newIngress
      IN /\ CatchAllLast(req[r].existingIngress, pushed)
         /\ \A i \in 1..Len(pushed) :
              ~IsCatchAll(pushed[i]) =>
                 RulesOf(pushed, pushed[i].hostname) = {i}

(***************************************************************************)
(* C20, amended.  Whatever rule list was fetched, in the list pushed by a  *)
(* successful registration the rules with a hostname precede the           *)
(* catch-all, the catch-all is last if one existed, there is at most one   *)
(* catch-all, the registered hostname appears in exactly one rule (the new *)
(* one), and every other hostname appears as often as in the fetched list  *)
(* (in one rule at most if the fetched list held it in one rule at most).  *)
(***************************************************************************)
C20_IngressRewritten ==
  \A r \in ReqIds :
    Registered(req[r]) =>
      LET fetched == req[r].existingIngress
          pushed == req[r].newIngress
          h == fullHostname(req[r].body.hostname)
          new == Rule(h, serviceUrl(req[r].body), "noTLSVerify")
      IN /\ CatchAllLast(fetched, pushed)
         /\ Cardinality(RulesOf(pushed, h)) = 1
         /\ \A i \in RulesOf(pushed, h) : pushed[i] = new
         /\ \A i \in 1..Len(fetched) :
              (~IsCatchAll(fetched[i]) /\ fetched[i].hostname # h) =>
                 Cardinality(RulesOf(pushed, fetched[i].hostname))
                   = Cardinality(RulesOf(fetched, fetched[i].hostname))
         /\ ingress = pushed

\* a registration replaced the rule of its hostname, in front of the
\* catch-all and behind the rule of another hostname
C20_Witness ==
  \E r \in ReqIds :
    /\ Registered(req[r])
    /\ Len(req[r].existingIngress) = 3
    /\ RulesOf(req[r].existingIngress,
               fullHostname(req[r].body.hostname)) = {1}
    /\ IsCatchAll(req[r].existingIngress[2])
    /\ Len(ingress) = 3
    /\ ingress[2].hostname = fullHostname(req[r].body.hostname)
    /\ ingress[2].originRequest = "noTLSVerify"
    /\ IsCatchAll(ingress[3])

(***************************************************************************)
(* C21.  POST /api/auth/refresh resets jwtCache to absent and issues one   *)
(* login call, the only call of the request.  When that login succeeds     *)
(* the response is 200 and the cache holds, in the step that produces it,  *)
(* the token just issued with the time of that step plus 8 hours.  When it *)
(* fails the response is 500 and the step does not write the cache: the    *)
(* cache is absent unless a login of another request has completed since   *)
(* the reset.  The token the refresh found is never restored: a token      *)
(* enters the cache only in the step in which it is issued.                *)
(***************************************************************************)
C21_RefreshRelogins ==
  [][/\ (jwtCache'.token # NULL /\ jwtCache' # jwtCache)
          => (issued' = issued + 1 /\ jwtCache'.token = issued')
     /\ \A r \in ReqIds :
       /\ (req[r].pc = "idle" /\ req'[r].route = "refresh"
             /\ ~GateRejected(req'[r]))
            => (/\ jwtCache' = EmptyCache
                /\ loginCalls' = loginCalls + 1
                /\ req'[r].pc = "login"
                /\ req'[r].calls = <<[call |-> "login", tok |-> NULL,
                                      out |-> "pending"]>>)
       /\ (req[r].route = "refresh" /\ LoginOkStep(r))
            => (/\ issued' = issued + 1
                /\ jwtCache' = [token |-> issued',
                                expiresAt |-> now' + 8 * 60 * 60 * 1000]
                /\ loginCalls' = loginCalls
                /\ Len(req'[r].calls) = 1
                /\ req'[r].pc = "done"
                /\ req'[r].status = 200
                /\ req'[r].success = "true")
       /\ (req[r].route = "refresh" /\ LoginFailStep(r))
            => (/\ jwtCache' = jwtCache
                /\ invalidated => jwtCache' = EmptyCache
                /\ loginCalls' = loginCalls
                /\ Len(req'[r].calls) = 1
                /\ req'[r].pc = "done"
                /\ req'[r].status = 500)]_vars

\* a refresh that found the startup token (no call was answered 401 and no
\* other login was issued) has failed, and the cache is absent
C21_Witness ==
  \E r \in ReqIds :
    /\ req[r].route = "refresh"
    /\ req[r].pc = "done"
    /\ req[r].status = 500
    /\ issued = 1
    /\ loginCalls = 2
    /\ ~denied
    /\ jwtCache = EmptyCache

(***************************************************************************)
(* C22.  The server handles requests only after the startup login has      *)
(* succeeded: without the Portainer credentials the process has exited,    *)
(* a failed startup login makes it exit, it listens only once a login has  *)
(* completed successfully, an exited process never listens again, and a    *)
(* request is in a handler only while the server listens.                  *)
(***************************************************************************)
C22_ListenAfterLogin ==
  /\ [](/\ (~Truthy(env.PORTAINER_USERNAME) \/ ~Truthy(env.PORTAINER_PASSWORD))
            => phase = "exited"
        /\ phase = "listening" => issued >= 1
        /\ phase # "listening"
            => (issued = 0 /\ \A r \in ReqIds : req[r].pc = "idle")
        /\ \A r \in ReqIds :
             req[r].pc # "idle" => (phase = "listening" /\ issued >= 1))
  /\ [][/\ phase = "exited" => phase' = "exited"
        /\ (phase = "starting" /\ phase' = "listening") => issued' = 1
        /\ (phase = "starting" /\ phase' # "listening") => issued' = 0
        /\ phase = "listening" => phase' = "listening"]_vars

\* a request is in its handler and the only login so far is the startup one
C22_Witness ==
  /\ req[1].pc \notin {"idle", "done"}
  /\ phase = "listening"
  /\ issued = 1
  /\ loginCalls = 1

(***************************************************************************)
(* C23.  jwtCache changes only in the step of a successful login (which    *)
(* writes the new token), in the step in which a call of POST /api/stack   *)
(* or GET /api/stacks is answered 401 (which clears it) and in the step in *)
(* which POST /api/auth/refresh starts (which clears it).  A step of a     *)
(* request to /api/cloudflare, /api/cloudflare/tunnel, /health, /api/tipos *)
(* or /api/auth/status, a rejection by the gate or by validation, and a    *)
(* call that fails without status 401 leave it as it was.                  *)
(***************************************************************************)
\* the pending call of request r fails in this step, not with status 401
FailsNot401(r) ==
  /\ Len(req[r].calls) >= 1
  /\ req[r].calls[Len(req[r].calls)].out = "pending"
  /\ req'[r].calls[Len(req[r].calls)].out \in {"e500", "enet"}

C23_CacheFrame ==
  [][/\ jwtCache' # jwtCache
          => \/ /\ issued' = issued + 1
                /\ jwtCache' = [token |-> issued', expiresAt |-> now + JWT_TTL]
             \/ /\ jwtCache' = EmptyCache
                /\ \E r \in ReqIds :
                     Observes401(r) /\ req[r].route \in {"stack", "stacks"}
             \/ /\ jwtCache' = EmptyCache
                /\ \E r \in ReqIds :
                     /\ req[r].pc = "idle"
                     /\ req'[r].route = "refresh"
                     /\ req'[r].pc = "login"
     /\ \A r \in ReqIds :
          (/\ req'[r] # req[r]
           /\ \/ req'[r].route \in
                   {"cloudflare", "tunnel", "health", "tipos", "status"}
              \/ GateRejected(req'[r])
              \/ req'[r].pc = "done" /\ req'[r].status = 400
              \/ FailsNot401(r))
          => jwtCache' = jwtCache]_vars

\* the DNS provider answered a tunnel request 401 and the token is still cached
C23_Witness ==
  /\ req[1].route = "tunnel"
  /\ req[1].pc = "done"
  /\ req[1].status = 401
  /\ Len(req[1].calls) = 2
  /\ jwtCache.token # NULL

(***************************************************************************)
(* C24.  The proxied flag of the record data sent to the DNS provider, and *)
(* of the record the provider holds after the write: the caller's value    *)
(* when the body carries true or false; without a proxied field, true for  *)
(* the types A and AAAA and false for CNAME.  (A value of another JSON     *)
(* type is sent as its truthiness.)                                        *)
(***************************************************************************)
C24_ProxiedFlag ==
  \A r \in ReqIds :
    LET rq == req[r]
    IN (rq.route = "cloudflare" /\ HasCall(rq, "lookup"))
       => LET sent == rq.recordData[1].proxied
          IN /\ rq.body.proxied = "true" => sent = TRUE
             /\ rq.body.proxied = "false" => sent = FALSE
             /\ rq.body.proxied = "undefined"
                  => sent = (toUpperCase(rq.body.tipo) \in {"A", "AAAA"})
             /\ rq.body.proxied \in {"null", "0"} => sent = FALSE
             /\ rq.body.proxied \in {"'false'", "1"} => sent = TRUE
             /\ (rq.pc = "done" /\ rq.success = "true")
                  => \E rec \in zone : /\ rec.id = rq.recordId
                                       /\ rec.proxied = sent

\* a CNAME with proxied true has replaced the record of the name
C24_Witness ==
  /\ req[1].route = "cloudflare"
  /\ req[1].success = "true"
  /\ req[1].body.proxied = "true"
  /\ HasCall(req[1], "put")
  /\ \E rec \in zone : rec.type = "CNAME" /\ rec.proxied = TRUE

(***************************************************************************)
(* C25.  As claimed: when a call of a request is answered 401 and the      *)
(* cache holds a token other than the one the call carried, the handler    *)
(* leaves the cache as it is.                                              *)
(***************************************************************************)
C25_LateRejectionKeepsNewer ==
  [][\A r \in ReqIds :
       (/\ Observes401(r)
        /\ jwtCache.token # NULL
        /\ jwtCache.token # req[r].calls[Len(req[r].calls)].tok)
       => jwtCache' = jwtCache]_vars

(***************************************************************************)
(* C25, amended.  When the swarm lookup, the redis create or the stack     *)
(* list of a request is answered 401, the handler clears the cache         *)
(* whatever token it holds: a token newer than the one the call carried is *)
(* discarded as well, and the request is answered 401.                     *)
(***************************************************************************)
C25_ClearsWhateverToken ==
  [][\A r \in ReqIds :
       (Observes401(r) /\ req[r].pc \in {"swarm", "create", "list"})
       => (/\ jwtCache' = EmptyCache
           /\ req'[r].pc = "done"
           /\ req'[r].status = 401)]_vars

\* the 401 for token 1 came after token 2 was cached, and the cache is empty
C25_Witness ==
  \E r \in ReqIds :
    /\ req[r].pc = "done"
    /\ req[r].status = 401
    /\ req[r].tok = 1
    /\ lastLogin.token = 2
    /\ lastLogin.expiresAt > now
    /\ loginCalls = 2
    /\ \E q \in ReqIds \ {r} :
         /\ req[q].route = "refresh" /\ req[q].status = 200
         /\ \A p \in ReqIds \ {r, q} : req[p].pc = "idle"
    /\ jwtCache = EmptyCache

(***************************************************************************)
(* C26.  As claimed: once two registrations for two distinct hostnames     *)
(* have both been answered 200 and no registration is in flight, the rule  *)
(* list of the provider holds a rule for both hostnames, however the fetch *)
(* and push calls of the requests were interleaved.                        *)
(***************************************************************************)
\* no registration is between its arrival and its response
TunnelQuiet == \A r \in ReqIds : req[r].pc \in {"idle", "done"}

\* the rule list of the provider holds a rule for the hostname of request r
Listed(r) == RulesOf(ingress, fullHostname(req[r].body.hostname)) # {}

C26_NoRegistrationLost ==
  \A r1, r2 \in ReqIds :
    (/\ Registered(req[r1]) /\ Registered(req[r2])
     /\ fullHostname(req[r1].body.hostname)
          # fullHostname(req[r2].body.hostname)
     /\ TunnelQuiet)
    => (Listed(r1) /\ Listed(r2))

(***************************************************************************)
(* C26, amended.  The same, for registrations that did not overlap (none   *)
(* issued its fetch while another was between its fetch and the response   *)
(* to its push): both hostnames are in the final rule list.                *)
(* (Registrations that overlap each push a list built from what the        *)
(* provider answered to their fetch, and the later push replaces the       *)
(* earlier.)                                                               *)
(***************************************************************************)
C26_NoneLostUnlessOverlapped ==
  \A r1, r2 \in ReqIds :
    (/\ Registered(req[r1]) /\ Registered(req[r2])
     /\ fullHostname(req[r1].body.hostname)
          # fullHostname(req[r2].body.hostname)
     /\ TunnelQuiet
     /\ \A r \in ReqIds : ~req[r].raced)
    => (Listed(r1) /\ Listed(r2))

\* two registrations, one after the other, and both hostnames are listed
C26_Witness ==
  /\ Registered(req[1]) /\ Registered(req[2])
  /\ ~req[1].raced /\ ~req[2].raced
  /\ fullHostname(req[1].body.hostname) # fullHostname(req[2].body.hostname)
  /\ Listed(1) /\ Listed(2)
  /\ Len(req[2].existingIngress) >= 1

(***************************************************************************)
(* C27.  As claimed: when GET /api/auth/status answers authenticated: true *)
(* or GET /health answers portainerAuth: 'authenticated', the cache holds  *)
(* a token whose expiresAt has not passed, so that getValidJWT() at that   *)
(* instant would return it without a login.                                *)
(***************************************************************************)
C27_ReportedMeansUsable ==
  [][\A r \in ReqIds :
       (/\ req[r].pc = "idle"
        /\ req'[r].route \in {"status", "health"}
        /\ req'[r].pc = "done"
        /\ req'[r].authenticated)
       => CacheValid(jwtCache, now)]_vars

(***************************************************************************)
(* C28.  In every state jwtCache is well-formed: token and expiresAt are   *)
(* both null, or both are set, the token is the one returned by the latest *)
(* successful login and expiresAt is the completion time of that login     *)
(* plus 8 hours.  The record of the latest login changes only when a login *)
(* completes, to the token just issued and the time of that step plus 8    *)
(* hours.                                                                  *)
(***************************************************************************)
C28_CacheWellFormed ==
  /\ [](/\ (jwtCache.token = NULL) <=> (jwtCache.expiresAt = NULL)
        /\ jwtCache.token # NULL
            => (/\ jwtCache.token = issued
                /\ jwtCache.token = lastLogin.token
                /\ jwtCache.expiresAt = lastLogin.expiresAt
                /\ jwtCache.expiresAt <= now + 8 * 60 * 60 * 1000))
  /\ [][lastLogin' # lastLogin
          => (/\ issued' = issued + 1
              /\ lastLogin' = [token |-> issued',
                               expiresAt |-> now' + 8 * 60 * 60 * 1000])]_vars

\* the cache holds the third token after a request was answered 401
C28_Witness ==
  /\ jwtCache.token = 3
  /\ jwtCache = lastLogin
  /\ \E r \in ReqIds : req[r].pc = "done" /\ req[r].status = 401

(***************************************************************************)
(* C29.  A request on any route is answered exactly once: no handler sends *)
(* a second response, a handler has ended exactly when it has sent its     *)
(* response, and, provided the login and the calls without a timer return, *)
(* every request that has arrived is answered.                             *)
(***************************************************************************)
C29_ExactlyOneResponse ==
  /\ [](\A r \in ReqIds :
          /\ req[r].responses <= 1
          /\ (req[r].pc = "done") <=> (req[r].responses = 1))
  /\ \A r \in ReqIds : (req[r].pc # "idle") ~> (req[r].pc = "done")

\* an n8n request with a failed and a created stack has been answered once
C29_Witness ==
  /\ req[1].route = "stack"
  /\ req[1].pc = "done"
  /\ req[1].responses = 1
  /\ Len(req[1].created) >= 1
  /\ Len(req[1].errors) >= 1

(***************************************************************************)
(* C30.  A POST /api/stack request calls getValidJWT() once, before the    *)
(* swarm lookup: a login call, if any, is the first call of the request,   *)
(* the swarm lookup and every create call carry the token that call        *)
(* returned, and the token of the request never changes while the request  *)
(* lives, whatever happens to the cache meanwhile.                         *)
(***************************************************************************)
C30_OneTokenPerRequest ==
  /\ [](\A r \in ReqIds :
          req[r].route = "stack" =>
            \A i \in 1..Len(req[r].calls) :
              IF req[r].calls[i].call = "login"
                THEN i = 1
                ELSE /\ req[r].calls[i].tok # NULL
                     /\ req[r].calls[i].tok = req[r].tok
                     /\ i > 1 => (\/ req[r].calls[1].call = "login"
                                  \/ req[r].calls[i].tok = req[r].calls[1].tok))
  /\ [][\A r \in ReqIds :
         (req[r].route = "stack" /\ req[r].tok # NULL /\ req'[r].pc # "idle")
         => req'[r].tok = req[r].tok]_vars

\* the worker create call carries token 1 although the cache holds token 2,
\* and the clock has passed the expiry of token 1
C30_Witness ==
  /\ req[1].route = "stack"
  /\ Len(req[1].calls) = 4
  /\ req[1].calls[4].call = "worker"
  /\ req[1].calls[4].tok = 1
  /\ jwtCache.token = 2
  /\ now >= JWT_TTL

====
